---- MODULE Spec2Model ----
(***************************************************************************)
(* A model of pbcore/io/dataset/DataSetIO.py: the DataSet object model     *)
(* (merge, copy, split, resource and filter bookkeeping) and the generic   *)
(* chunker DataSet._chunkList.                                             *)
(***************************************************************************)
EXTENDS Integers, Sequences, FiniteSets, TLC

(***************************************************************************)
(* Bounds of the model.                                                    *)
(***************************************************************************)
\* longest atom list handed to _chunkList
MaxAtoms == 4
\* largest chunk count handed to _chunkList
MaxChunks == 3
\* largest balance key of an atom
MaxSize == 2

(***************************************************************************)
(* The value metadata.numRecords / totalLength take when the counts are    *)
(* unknown (DataSet.updateCounts, reFilter(light=False)).                  *)
(***************************************************************************)
UnknownCount == -1

\* number of calls that change or keep a DataSet (merge, copy,
\* addExternalResources, processFilters) in one session
MaxOps == 2
\* largest chunk count handed to DataSet.split
MaxSplit == 3

VARIABLES
    \* ---- the DataSet objects of a session ----
    ds,           \* the DataSets held: ds[1], ds[2] as constructed, ds[3] the
                  \* result of the last merge that returned a new DataSet
    call,         \* the last call made: operation, arguments, outcome, the
                  \* DataSets as they were before it, and what it returned
    left,         \* number of calls the session may still make
    \* ---- DataSet._chunkList, one loop iteration per step ----
    inlist,       \* balanceKey(item) of every item of <inlist>, by position
    chunknum,     \* the requested number of chunks
    sortedItems,  \* sorted(inlist, key=balanceKey, reverse=True), as positions
    pos,          \* number of items of sortedItems already placed
    chunks,       \* the list of lists being built
    chunkSizes,   \* [[load, chunk number], ...]
    lastBin,      \* the chunk the last iteration appended to
    cpc,          \* position in _chunkList: "start", "loop", "done"
    \* ---- DataSet objects by reference ----
    heap,         \* the DataSet objects made so far, by address 1, 2, ...;
                  \* the subdatasets of an object are addresses
    held,         \* the addresses the caller was handed
    hcall,        \* the last call made on the heap
    hleft,        \* number of calls the caller may still make
    \* ---- AlignmentSet.readsInRange ----
    mg,           \* the merge of the per-resource range iterators: its
                  \* inputs, its buffers, what it has yielded so far
    aset,         \* an AlignmentSet with its readers, reference tables and
                  \* index
    query,        \* the last range query made on aset and what it yielded
    \* ---- ReadSet._split_zmws ----
    zs,           \* the files, the arguments and the chunks of a ZMW split
    \* ---- a ReadSet, its files, filters, counts and index ----
    rs,           \* the ReadSet and the last call made on it
    \* ---- AlignmentSet._split_contigs ----
    ctg           \* the contigs, the arguments and the windows of a split

chunkVars == <<inlist, chunknum, sortedItems, pos, chunks, chunkSizes,
               lastBin, cpc>>

dsVars == <<ds, call, left>>

heapVars == <<heap, held, hcall, hleft>>

readVars == <<mg, aset, query, zs>>

setVars == <<rs, ctg>>

vars == <<dsVars, chunkVars, heapVars, readVars, setVars>>

(***************************************************************************)
(* Helpers on sequences.                                                   *)
(***************************************************************************)
Range(s) == {s[i] : i \in 1..Len(s)}

RECURSIVE SumSeq(_)
SumSeq(s) == IF s = <<>> THEN 0 ELSE s[1] + SumSeq(Tail(s))

\* min(...) of a non-empty set of numbers
MinOfSet(S) == CHOOSE x \in S : \A y \in S : x <= y

SeqsUpTo(S, n) == UNION {[1..k -> S] : k \in 0..n}

(***************************************************************************)
(* sorted(inlist, key=balanceKey, reverse=True): positions of inlist in    *)
(* descending key order; the sort is stable, equal keys keep list order.   *)
(***************************************************************************)
InsertDesc(s, x, keys) ==
    LET p == Cardinality({i \in 1..Len(s) : keys[s[i]] >= keys[x]})
    IN  SubSeq(s, 1, p) \o <<x>> \o SubSeq(s, p + 1, Len(s))

RECURSIVE SortedDesc(_, _)
SortedDesc(keys, n) ==
    IF n = 0 THEN <<>> ELSE InsertDesc(SortedDesc(keys, n - 1), n, keys)

(***************************************************************************)
(* chunkSizes.sort(): a list of [load, chunk] pairs in ascending           *)
(* lexicographic order.                                                    *)
(***************************************************************************)
PairLeq(a, b) == a[1] < b[1] \/ (a[1] = b[1] /\ a[2] <= b[2])

InsertPair(s, x) ==
    LET p == Cardinality({i \in 1..Len(s) : PairLeq(s[i], x)})
    IN  SubSeq(s, 1, p) \o <<x>> \o SubSeq(s, p + 1, Len(s))

RECURSIVE SortPairs(_)
SortPairs(s) ==
    IF s = <<>> THEN <<>>
    ELSE InsertPair(SortPairs(SubSeq(s, 1, Len(s) - 1)), s[Len(s)])

(***************************************************************************)
(* The body of the loop of _chunkList for one item of key <key>: refresh   *)
(* the measure of bin fullness, append to the emptiest bin, add the mass   *)
(* (a zero mass counts as one).                                            *)
(***************************************************************************)
ChunkMass(key) == IF key = 0 THEN key + 1 ELSE key

ChunkPlace(st, item, key) ==
    LET cs == SortPairs(st.chunkSizes)
        bin == cs[1][2]
    IN  [chunks     |-> [st.chunks EXCEPT ![bin] = Append(@, item)],
         chunkSizes |-> [cs EXCEPT ![1] = <<cs[1][1] + ChunkMass(key), bin>>],
         bin        |-> bin]

ChunkInit(n) ==
    [chunks     |-> [i \in 1..n |-> <<>>],
     chunkSizes |-> [i \in 1..n |-> <<0, i>>],
     bin        |-> 0]

RECURSIVE ChunkFold(_, _, _, _)
ChunkFold(st, items, keys, i) ==
    IF i > Len(items) THEN st
    ELSE ChunkFold(ChunkPlace(st, items[i], keys[items[i]]), items, keys,
                   i + 1)

\* _chunkList(inlist, chunknum, balanceKey) as a function of the keys; the
\* chunks hold positions of inlist
_chunkList(keys, n) ==
    ChunkFold(ChunkInit(n), SortedDesc(keys, Len(keys)), keys, 1).chunks

(***************************************************************************)
(* Values of the DataSet model.                                            *)
(*                                                                         *)
(* A DataSet is a record:                                                  *)
(*   cls            the class name (type(self).__name__)                   *)
(*   uid, name, version    objMetadata['UniqueId' / 'Name' / 'Version']    *)
(*   res            externalResources, a list of [resourceId, nchild]      *)
(*   filters        _filters, the set of its filter groups                 *)
(*   numRecords, totalLength    the counts of _metadata                    *)
(*   subdatasets    the list of subdatasets (DataSet records)              *)
(*   cachedFilters  _cachedFilters: "empty" is [], "tests" the compiled    *)
(*                  filters, "true" the single always-true predicate       *)
(*   indexed        _index is not None (and with it _indexMap)             *)
(*   indexRes       the resources whose records _index and _indexMap list  *)
(*   noFiltering    noFiltering                                            *)
(*                                                                         *)
(* A string is the sequence of its characters; a character is a number     *)
(* that orders as its code does: "." is 0 and the digit d is d + 1.        *)
(* A value that is absent (None) is the empty sequence.                    *)
(***************************************************************************)
ClassNames == {"DataSet", "AlignmentSet", "SubreadSet"}

NoVersion == <<>>
NoUuid == <<>>

\* the version strings "3.0", "4.0", "5.0" and "10.0"
V3 == <<4, 0, 1>>
V4 == <<5, 0, 1>>
V5 == <<6, 0, 1>>
V10 == <<2, 1, 0, 1>>

\* a > b on Python 2 strings, None being smaller than every string
RECURSIVE StrLess(_, _)
StrLess(a, b) ==
    IF b = <<>> THEN FALSE
    ELSE IF a = <<>> THEN TRUE
    ELSE IF a[1] # b[1] THEN a[1] < b[1]
    ELSE StrLess(Tail(a), Tail(b))

StrGreater(a, b) == StrLess(b, a)

\* the numbers a dotted version string denotes, "10.0" |-> <<10, 0>>
RECURSIVE VersionParts(_, _)
VersionParts(v, acc) ==
    IF v = <<>> THEN <<acc>>
    ELSE IF v[1] = 0 THEN <<acc>> \o VersionParts(Tail(v), 0)
    ELSE VersionParts(Tail(v), 10 * acc + (v[1] - 1))

RECURSIVE NumSeqLess(_, _)
NumSeqLess(a, b) ==
    IF b = <<>> THEN FALSE
    ELSE IF a = <<>> THEN TRUE
    ELSE IF a[1] # b[1] THEN a[1] < b[1]
    ELSE NumSeqLess(Tail(a), Tail(b))

\* version a is lower than version b, as versions
VersionLower(a, b) == NumSeqLess(VersionParts(a, 0), VersionParts(b, 0))

Resource(rid, n) == [resourceId |-> rid, nchild |-> n]

resourceIds(res) == [k \in 1..Len(res) |-> res[k].resourceId]

(***************************************************************************)
(* toXml(self, core=True): what the UniqueId and == are computed from.     *)
(* The user settable fields are stripped, the previous UniqueId is not     *)
(* (docstring of newUuid). MD5 is taken to be collision free: a digest is  *)
(* the one-element sequence of the text it was computed from.              *)
(***************************************************************************)
RECURSIVE coreXML(_)
coreXML(d) ==
    [res         |-> d.res,
     filters     |-> d.filters,
     subdatasets |-> IF d.subdatasets = <<>> THEN <<>>
                     ELSE [k \in 1..Len(d.subdatasets) |->
                               coreXML(d.subdatasets[k])],
     uid         |-> d.uid]

\* newUuid(setter=False): the id alone
newId(d) == <<coreXML(d)>>

\* newUuid(): the DataSet with its UniqueId regenerated
newUuid(d) == [d EXCEPT !.uid = newId(d)]

\* DataSet.__eq__
DataSetEq(a, b) == newId(a) = newId(b)

\* DataSet.__init__ without files (state tracking fields included)
EmptyDataSet(cls) ==
    newUuid([cls |-> cls, uid |-> NoUuid, name |-> "", version |-> NoVersion,
             res |-> <<>>, filters |-> {}, numRecords |-> 0,
             totalLength |-> 0, subdatasets |-> <<>>,
             cachedFilters |-> "empty", indexed |-> FALSE,
             indexRes |-> <<>>, noFiltering |-> FALSE])

\* DataSet.__deepcopy__: a new object of the same type, the members deep
\* copied, the state tracking fields as the constructor leaves them
RECURSIVE deepcopy(_)
deepcopy(d) ==
    [d EXCEPT !.subdatasets = IF @ = <<>> THEN <<>>
                              ELSE [k \in 1..Len(@) |-> deepcopy(@[k])],
              !.cachedFilters = "empty",
              !.indexed = FALSE,
              !.indexRes = <<>>,
              !.noFiltering = FALSE]

copyNoUuid(d) == deepcopy(d)

\* DataSet.copy() without asType
copy(d) == newUuid(deepcopy(d))

(***************************************************************************)
(* Filters and the caches that depend on them.                             *)
(***************************************************************************)
\* Filters.testCompatibility
testCompatibility(f, g) == f = g

\* Filters.merge: union of the filter groups
FiltersMerge(f, g) == f \cup g

reFilter(d, light) ==
    [d EXCEPT !.cachedFilters = "empty",
              !.indexed = FALSE,
              !.indexRes = <<>>,
              !.numRecords = IF light THEN @ ELSE UnknownCount,
              !.totalLength = IF light THEN @ ELSE UnknownCount]

addFiltersKeepIndex(d, newFilters, underConstruction) ==
    [d EXCEPT !.filters = FiltersMerge(@, newFilters)]

addFilters(d, newFilters, underConstruction) ==
    reFilter([d EXCEPT !.filters = FiltersMerge(@, newFilters)],
             underConstruction)

processFilters(d) ==
    IF d.cachedFilters # "empty" THEN d
    ELSE IF d.filters = {} THEN [d EXCEPT !.cachedFilters = "true"]
    ELSE [d EXCEPT !.cachedFilters = "tests"]

\* self.filters = value (the setter of the filters property)
setFilters(d, value) == [d EXCEPT !.filters = value]

\* a change made to the Filters object handed out by the filters property:
\* the callback the getter registered runs reFilter()
mutateFilters(d, value) == reFilter([d EXCEPT !.filters = value], TRUE)

disableFilters(d) ==
    [reFilter(d, TRUE) EXCEPT !.noFiltering = TRUE, !.cachedFilters = "true"]

enableFilters(d) == [reFilter(d, TRUE) EXCEPT !.noFiltering = FALSE]

(***************************************************************************)
(* Object metadata, content metadata, resources, subdatasets.              *)
(***************************************************************************)
_checkObjMetadataLower(d, newVersion) ==
    /\ d.version # NoVersion
    /\ StrLess(newVersion, d.version)

\* _checkObjMetadata raises ValueError
_checkObjMetadata(d, newVersion) ==
    /\ d.version # NoVersion
    /\ StrGreater(newVersion, d.version)

\* self.objMetadata.update(other.objMetadata)
objMetadataUpdate(d, o) ==
    [d EXCEPT !.uid = o.uid,
              !.name = o.name,
              !.version = IF o.version # NoVersion THEN o.version ELSE @]

\* DataSetMetadata.merge: the counts add up
MetadataMerge(count, otherCount) == count + otherCount

\* result.addMetadata(other.metadata)
addMetadata(d, o) ==
    [d EXCEPT !.numRecords = MetadataMerge(@, o.numRecords),
              !.totalLength = MetadataMerge(@, o.totalLength)]

\* result.metadata = other.metadata
setMetadata(d, o) ==
    [d EXCEPT !.numRecords = o.numRecords, !.totalLength = o.totalLength]

\* ExternalResources.merge / addResources: a resource whose resourceId is
\* already present is skipped
RECURSIVE ExternalResourcesMerge(_, _)
ExternalResourcesMerge(cur, new) ==
    IF new = <<>> THEN cur
    ELSE IF new[1].resourceId \in Range(resourceIds(cur))
         THEN ExternalResourcesMerge(cur, Tail(new))
         ELSE ExternalResourcesMerge(Append(cur, new[1]), Tail(new))

\* addExternalResources(newExtResources, updateCount=False)
addExternalResourcesDup(d, newExt) == [d EXCEPT !.res = @ \o newExt]

addExternalResources(d, newExt) ==
    [d EXCEPT !.res = ExternalResourcesMerge(
                          @, ExternalResourcesMerge(<<>>, newExt))]

addDatasets(d, o) ==
    [d EXCEPT !.subdatasets = IF o.subdatasets # <<>>
                              THEN @ \o o.subdatasets
                              ELSE Append(@, o)]

(***************************************************************************)
(* DataSet.merge(other, copyOnMerge). <same> tells that other is self.     *)
(* The value is the outcome ("ok", "None" when the merge was blocked,      *)
(* "TypeError", "ValueError"), self as the call leaves it, and the         *)
(* DataSet returned.                                                       *)
(***************************************************************************)
firstInNever(s) == FALSE

\* firstIn: this merge is populating self for the first time
firstIn(s) == Len(s.res) = 0

mergeable(s, o) == o.cls = s.cls \/ o.cls = "DataSet" \/ s.cls = "DataSet"

merge(s, o, same, copyOnMerge) ==
    IF ~mergeable(s, o)
    THEN [outcome |-> "TypeError", self |-> s, result |-> <<>>]
    ELSE IF ~firstIn(s) /\ ~testCompatibility(s.filters, o.filters)
    THEN [outcome |-> "None", self |-> s, result |-> <<>>]
    ELSE
      LET first == firstIn(s)
          \* self.addFilters(other.filters, underConstruction=True)
          \* self._cachedFilters = []
          s1 == [addFilters(s, o.filters, TRUE) EXCEPT
                     !.cachedFilters = "empty"]
          o1 == IF same THEN s1 ELSE o
      IN
      IF _checkObjMetadata(s1, o1.version)
      THEN [outcome |-> "ValueError", self |-> s1, result |-> <<>>]
      ELSE
        LET s2 == objMetadataUpdate(s1, o1)
            r0 == IF copyOnMerge THEN copy(s2) ELSE s2
            \* result.addDatasets(self.copy())
            r1 == IF s2.subdatasets = <<>> /\ ~first
                  THEN addDatasets(r0, copy(s2)) ELSE r0
            o2 == IF ~same THEN o ELSE IF copyOnMerge THEN s2 ELSE r1
            \* result.addDatasets(other.copy())
            r2 == IF o2.subdatasets # <<>> \/ ~first
                  THEN addDatasets(r1, copy(o2)) ELSE r1
            o3 == IF ~same THEN o ELSE IF copyOnMerge THEN s2 ELSE r2
            r3 == IF first THEN setMetadata(r2, o3) ELSE addMetadata(r2, o3)
            o4 == IF ~same THEN o ELSE IF copyOnMerge THEN s2 ELSE r3
            r4 == addExternalResources(r3, o4.res)
        IN  [outcome |-> "ok",
             self    |-> IF copyOnMerge THEN s2 ELSE r4,
             result  |-> <<r4>>]

(***************************************************************************)
(* DataSet.copy(asType): a new, empty DataSet of the type asked for, into  *)
(* which self is merged; merge is called with its default copyOnMerge, and *)
(* what it returns is dropped.                                             *)
(***************************************************************************)
DataSetTypes ==
    {"DataSet", "SubreadSet", "HdfSubreadSet", "AlignmentSet", "ContigSet",
     "ConsensusReadSet", "ConsensusAlignmentSet", "ReferenceSet",
     "BarcodeSet"}

\* the keys of cls.castableTypes()
castableTypes(cls) ==
    IF cls # "DataSet" THEN {"DataSet", cls} ELSE DataSetTypes

copyAsUnchecked(d, asType) ==
    LET tbr == EmptyDataSet(asType)
        m == merge(tbr, d, FALSE, TRUE)
    IN  IF m.outcome \in {"TypeError", "ValueError"}
        THEN [outcome |-> m.outcome, result |-> <<>>]
        ELSE [outcome |-> "ok", result |-> <<m.self>>]

copyAs(d, asType) ==
    IF asType \notin castableTypes(d.cls)
    THEN [outcome |-> "TypeError", result |-> <<>>]
    ELSE LET tbr == EmptyDataSet(asType)
             m == merge(tbr, d, FALSE, TRUE)
         IN  IF m.outcome \in {"TypeError", "ValueError"}
             THEN [outcome |-> m.outcome, result |-> <<>>]
             ELSE [outcome |-> "ok", result |-> <<m.self>>]

(***************************************************************************)
(* DataSet.split(chunks, ignoreSubDatasets) by resource or by subdataset.  *)
(***************************************************************************)
\* the items of <lst> at the positions <at>
Pick(lst, at) == [k \in 1..Len(at) |-> lst[at[k]]]

_split_subdatasetsAlwaysChunk(d, nchunks) ==
    LET n == IF nchunks = 0 \/ nchunks > Len(d.subdatasets)
             THEN Len(d.subdatasets) ELSE nchunks
        keys == [k \in 1..Len(d.subdatasets) |-> d.subdatasets[k].numRecords]
        lists == _chunkList(keys, n)
    IN  [c \in 1..n |->
            newUuid([copy(d) EXCEPT
                         !.subdatasets = Pick(d.subdatasets, lists[c])])]

_split_subdatasets(d, nchunks) ==
    LET n == IF nchunks = 0 \/ nchunks > Len(d.subdatasets)
             THEN Len(d.subdatasets) ELSE nchunks
    IN  IF /\ n = Len(d.subdatasets)
           /\ \A k \in 1..Len(d.subdatasets) : d.subdatasets[k].res # <<>>
        THEN d.subdatasets
        ELSE LET keys == [k \in 1..Len(d.subdatasets) |->
                              d.subdatasets[k].numRecords]
                 lists == _chunkList(keys, n)
             IN  [c \in 1..n |->
                     newUuid([copy(d) EXCEPT
                                  !.subdatasets = Pick(d.subdatasets,
                                                       lists[c])])]

splitKeepResources(d, nchunks, ignoreSubDatasets) ==
    LET n == IF nchunks = 0 \/ nchunks > Len(d.res) THEN Len(d.res)
             ELSE nchunks
    IN  [c \in 1..n |-> copy(d)]

split(d, nchunks, ignoreSubDatasets) ==
    IF Len(d.subdatasets) > 1 /\ ~ignoreSubDatasets
    THEN _split_subdatasets(d, nchunks)
    ELSE
      LET atoms == d.res
          n == IF nchunks = 0 \/ nchunks > Len(atoms) THEN Len(atoms)
               ELSE nchunks
          \* balanceKey = len
          keys == [k \in 1..Len(atoms) |-> atoms[k].nchild]
          lists == _chunkList(keys, n)
      IN  IF n = 1 THEN <<copy(d)>>
          ELSE [c \in 1..n |->
                   newUuid([copy(d) EXCEPT !.res = Pick(atoms, lists[c])])]

\* no call made on the heap yet; the shape of the record of a call
NoHeapCall ==
    [op |-> "none", self |-> 0, other |-> 0, flag |-> FALSE, nchunks |-> 0,
     outcome |-> "", pre |-> <<>>, out |-> <<>>]

\* no object made
HeapIdle ==
    /\ heap = <<>>
    /\ held = {}
    /\ hcall = NoHeapCall
    /\ hleft = 0

\* no records read
ReadIdle ==
    /\ mg = <<>>
    /\ aset = <<>>
    /\ query = <<>>
    /\ zs = <<>>

\* no ReadSet opened, no contig split made
SetIdle ==
    /\ rs = <<>>
    /\ ctg = <<>>

\* no call made yet; the shape of the record of a call
NoCall ==
    [op |-> "none", self |-> 0, other |-> 0, flag |-> FALSE, nchunks |-> 0,
     arg |-> <<>>, outcome |-> "", pre |-> <<>>, self1 |-> <<>>,
     other1 |-> <<>>, out |-> <<>>]

(***************************************************************************)
(* _chunkList as a process.                                                *)
(***************************************************************************)
ChunkKeys == UnknownCount..MaxSize

InitChunk ==
    /\ inlist \in SeqsUpTo(ChunkKeys, MaxAtoms)
    /\ chunknum \in 1..MaxChunks
    /\ sortedItems = <<>>
    /\ pos = 0
    /\ chunks = <<>>
    /\ chunkSizes = <<>>
    /\ lastBin = 0
    /\ cpc = "start"
    /\ ds = <<>>
    /\ call = NoCall
    /\ left = 0
    /\ HeapIdle
    /\ ReadIdle
    /\ SetIdle

ChunkStart ==
    /\ cpc = "start"
    /\ sortedItems' = SortedDesc(inlist, Len(inlist))
    /\ chunks' = ChunkInit(chunknum).chunks
    /\ chunkSizes' = ChunkInit(chunknum).chunkSizes
    /\ cpc' = "loop"
    /\ UNCHANGED <<inlist, chunknum, pos, lastBin, dsVars, heapVars, readVars, setVars>>

ChunkIter ==
    /\ cpc = "loop"
    /\ pos < Len(sortedItems)
    /\ LET item == sortedItems[pos + 1]
           st   == ChunkPlace([chunks |-> chunks, chunkSizes |-> chunkSizes],
                              item, inlist[item])
       IN  /\ chunks' = st.chunks
           /\ chunkSizes' = st.chunkSizes
           /\ lastBin' = st.bin
    /\ pos' = pos + 1
    /\ UNCHANGED <<inlist, chunknum, sortedItems, cpc, dsVars, heapVars, readVars, setVars>>

ChunkReturn ==
    /\ cpc = "loop"
    /\ pos = Len(sortedItems)
    /\ cpc' = "done"
    /\ UNCHANGED <<inlist, chunknum, sortedItems, pos, chunks, chunkSizes,
                   lastBin, dsVars, heapVars, readVars, setVars>>

NextChunk == ChunkStart \/ ChunkIter \/ ChunkReturn

SpecChunk == InitChunk /\ [][NextChunk]_vars

(***************************************************************************)
(* The files behind the resources: what their indices say they hold.       *)
(***************************************************************************)
R1 == Resource("r1", 1)
R2 == Resource("r2", 0)
R3 == Resource("r3", 2)
R4 == Resource("r4", 1)

RecordsIn(rid) ==
    CASE rid = "r1" -> 1 [] rid = "r2" -> 2 [] rid = "r3" -> 1 [] OTHER -> 3

LengthOf(rid) ==
    CASE rid = "r1" -> 3 [] rid = "r2" -> 5 [] rid = "r3" -> 7 [] OTHER -> 11

numRecordsOf(res) == SumSeq([k \in 1..Len(res) |-> RecordsIn(res[k].resourceId)])
totalLengthOf(res) == SumSeq([k \in 1..Len(res) |-> LengthOf(res[k].resourceId)])

(***************************************************************************)
(* DataSet.__init__ from files: the members as parsed, a UniqueId          *)
(* generated, the counts updated (or unknown), and, when the counts were   *)
(* taken from the index, the index and the compiled filters cached.        *)
(***************************************************************************)
Construct(cls, name, res, filters, version, counted, cached) ==
    LET d == [EmptyDataSet(cls) EXCEPT
                  !.uid = NoUuid, !.name = name, !.res = res,
                  !.filters = filters, !.version = version,
                  !.numRecords = IF counted THEN numRecordsOf(res)
                                 ELSE UnknownCount,
                  !.totalLength = IF counted THEN totalLengthOf(res)
                                  ELSE UnknownCount]
        u == newUuid(d)
    IN  IF cached
        THEN [processFilters(u) EXCEPT !.indexed = TRUE, !.indexRes = res]
        ELSE u

\* the index property of a ReadSet: built from the open resources when
\* there is none, the cached one otherwise
index(d) ==
    IF d.indexed THEN d
    ELSE [d EXCEPT !.indexed = TRUE, !.indexRes = d.res]

\* ReadSet.updateCounts: count and length as the index gives them
updateCounts(d) ==
    LET d1 == index(d)
    IN  [d1 EXCEPT !.numRecords = numRecordsOf(d1.indexRes),
                   !.totalLength = totalLengthOf(d1.indexRes)]

\* addExternalResources(newExtResources) with updateCount=True, on a ReadSet
addExternalResourcesUpdate(d, newExt) ==
    updateCounts(addExternalResources(d, newExt))

\* the caller keeps the DataSet returned: ds[3]
Keep(d, x) == IF Len(d) = 3 THEN [d EXCEPT ![3] = x] ELSE Append(d, x)

ChunkIdle ==
    /\ inlist = <<>>
    /\ chunknum = 1
    /\ sortedItems = <<>>
    /\ pos = 0
    /\ chunks = <<>>
    /\ chunkSizes = <<>>
    /\ lastBin = 0
    /\ cpc = "idle"

(***************************************************************************)
(* The DataSets a session starts from.                                     *)
(***************************************************************************)
ClassPairs ==
    {<<"AlignmentSet", "AlignmentSet">>, <<"DataSet", "AlignmentSet">>,
     <<"AlignmentSet", "SubreadSet">>}

FilterPairs ==
    {<<{}, {}>>, <<{"fA"}, {"fA"}>>, <<{"fA"}, {"fB"}>>, <<{}, {"fB"}>>}

VersionPairs ==
    {<<NoVersion, NoVersion>>, <<V4, NoVersion>>, <<V4, V3>>, <<V4, V4>>,
     <<V4, V5>>, <<V4, V10>>, <<V10, V4>>}

Resources1 == {<<>>, <<R1, R2>>}
Resources2 == {<<>>, <<R2>>, <<R3, R4>>}

InitWide ==
    /\ \E cp \in ClassPairs, fp \in FilterPairs, vp \in VersionPairs,
          r1 \in Resources1, r2 \in Resources2, cached \in BOOLEAN,
          counted \in BOOLEAN :
          /\ r1 = <<>> => ~cached
          /\ r2 = <<>> => counted
          /\ ds = << Construct(cp[1], "n1", r1, fp[1], vp[1], TRUE, cached),
                     Construct(cp[2], "n2", r2, fp[2], vp[2], counted,
                               FALSE) >>
    /\ call = NoCall
    /\ left = 1
    /\ ChunkIdle
    /\ HeapIdle
    /\ ReadIdle
    /\ SetIdle

Init ==
    /\ \E cp \in {<<"AlignmentSet", "AlignmentSet">>,
                  <<"DataSet", "AlignmentSet">>},
          fp \in {<<{}, {}>>, <<{"fA"}, {"fA"}>>, <<{"fA"}, {"fB"}>>},
          rp \in {<< <<R1, R2>>, <<R2>> >>, << <<R1, R2>>, <<R3, R4>> >>,
                  << <<>>, <<R2>> >>},
          counted \in BOOLEAN :
          ds = << Construct(cp[1], "n1", rp[1], fp[1], NoVersion, TRUE,
                            FALSE),
                  Construct(cp[2], "n2", rp[2], fp[2], NoVersion, counted,
                            FALSE) >>
    /\ call = NoCall
    /\ left = MaxOps
    /\ ChunkIdle
    /\ HeapIdle
    /\ ReadIdle
    /\ SetIdle

(***************************************************************************)
(* The calls of a session.                                                 *)
(***************************************************************************)
Slots == 1..Len(ds)

\* ds[i].merge(ds[j], copyOnMerge), and with copyOnMerge ds[3] = the result
Merge(i, j, copyOnMerge) ==
    /\ left > 0
    /\ call.op # "split"
    /\ LET m == merge(ds[i], ds[j], i = j, copyOnMerge)
           after == [ds EXCEPT ![i] = m.self]
       IN  /\ ds' = IF m.outcome = "ok" /\ copyOnMerge
                    THEN Keep(after, m.result[1]) ELSE after
           /\ call' = [NoCall EXCEPT
                          !.op = "merge", !.self = i, !.other = j,
                          !.flag = copyOnMerge, !.outcome = m.outcome,
                          !.pre = ds, !.self1 = <<after[i]>>,
                          !.other1 = <<after[j]>>, !.out = m.result]
    /\ left' = left - 1
    /\ UNCHANGED <<chunkVars, heapVars, readVars, setVars>>

\* ds[3] = ds[i].copy()
Copy(i) ==
    /\ left > 0
    /\ call.op # "split"
    /\ ds' = Keep(ds, copy(ds[i]))
    /\ call' = [NoCall EXCEPT
                   !.op = "copy", !.self = i, !.outcome = "ok", !.pre = ds,
                   !.self1 = <<ds[i]>>, !.out = <<copy(ds[i])>>]
    /\ left' = left - 1
    /\ UNCHANGED <<chunkVars, heapVars, readVars, setVars>>

\* the types a caller asks copy for; "Reads" is no type at all
AsTypes == {"DataSet", "AlignmentSet", "SubreadSet", "ReferenceSet", "Reads"}

\* ds[3] = ds[i].copy(asType=asType)
CopyAs(i, asType) ==
    /\ left > 0
    /\ call.op # "split"
    /\ LET c == copyAs(ds[i], asType)
       IN  /\ ds' = IF c.outcome = "ok" THEN Keep(ds, c.result[1]) ELSE ds
           /\ call' = [NoCall EXCEPT
                          !.op = "copyAs", !.self = i, !.arg = <<asType>>,
                          !.outcome = c.outcome, !.pre = ds,
                          !.self1 = <<ds[i]>>, !.out = c.result]
    /\ left' = left - 1
    /\ UNCHANGED <<chunkVars, heapVars, readVars, setVars>>

NewResourceLists == {<<Resource("r1", 0)>>, <<R3, Resource("r3", 0)>>}

\* ds[i].addExternalResources(newExt, updateCount=False)
AddExternalResources(i, newExt) ==
    /\ left > 0
    /\ call.op # "split"
    /\ ds' = [ds EXCEPT ![i] = addExternalResources(@, newExt)]
    /\ call' = [NoCall EXCEPT
                   !.op = "addExternalResources", !.self = i, !.arg = newExt,
                   !.outcome = "ok", !.pre = ds, !.self1 = <<ds'[i]>>]
    /\ left' = left - 1
    /\ UNCHANGED <<chunkVars, heapVars, readVars, setVars>>

\* ds[i].processFilters()
ProcessFilters(i) ==
    /\ left > 0
    /\ call.op # "split"
    /\ ds' = [ds EXCEPT ![i] = processFilters(@)]
    /\ call' = [NoCall EXCEPT
                   !.op = "processFilters", !.self = i, !.outcome = "ok",
                   !.pre = ds, !.self1 = <<ds'[i]>>]
    /\ left' = left - 1
    /\ UNCHANGED <<chunkVars, heapVars, readVars, setVars>>

\* ds[i].split(chunks=n, ignoreSubDatasets=ign). A split changes no DataSet
\* of the session, so it is followed as the last call only: what can be
\* reached after it can be reached without it.
Split(i, n, ign) ==
    /\ call.op # "split"
    /\ call' = [NoCall EXCEPT
                   !.op = "split", !.self = i, !.nchunks = n, !.flag = ign,
                   !.outcome = "ok", !.pre = ds, !.self1 = <<ds[i]>>,
                   !.out = split(ds[i], n, ign)]
    /\ UNCHANGED <<ds, left>>
    /\ UNCHANGED <<chunkVars, heapVars, readVars, setVars>>

Next ==
    \/ \E i \in Slots, j \in Slots, c \in BOOLEAN : Merge(i, j, c)
    \/ \E i \in Slots : Copy(i)
    \/ \E i \in Slots, l \in NewResourceLists : AddExternalResources(i, l)
    \/ \E i \in Slots : ProcessFilters(i)
    \/ \E i \in Slots, n \in 0..MaxSplit, ign \in BOOLEAN : Split(i, n, ign)

\* sessions of MaxOps calls
Spec == Init /\ [][Next]_vars

\* sessions of one call, over a wider choice of DataSets
SpecWide == InitWide /\ [][Next]_vars

\* a DataSet of the base class or of a subclass, with or without resources
InitCast ==
    /\ \E cls \in {"DataSet", "AlignmentSet", "SubreadSet"},
          filters \in {{}, {"fA"}, {"fB"}}, res \in Resources2,
          version \in {NoVersion, V4}, cached \in BOOLEAN :
          /\ res = <<>> => ~cached
          /\ ds = << Construct(cls, "n1", res, filters, version, TRUE,
                               cached) >>
    /\ call = NoCall
    /\ left = 1
    /\ ChunkIdle
    /\ HeapIdle
    /\ ReadIdle
    /\ SetIdle

NextCast == \E i \in Slots, t \in AsTypes : CopyAs(i, t)

\* one cast of one DataSet
SpecCast == InitCast /\ [][NextCast]_vars

(***************************************************************************)
(* Sessions on ReadSets that change filters and resources and look at the  *)
(* caches.                                                                 *)
(***************************************************************************)
\* number of calls in one such session
MaxCacheOps == 2

FilterValues == {{}, {"fA"}, {"fB"}}

InitCache ==
    /\ \E f1 \in FilterValues, f2 \in {{}, {"fA"}}, cached \in BOOLEAN,
          cls \in {"AlignmentSet", "SubreadSet"} :
          ds = << Construct(cls, "n1", <<R1, R2>>, f1, NoVersion, TRUE,
                            cached),
                  Construct("AlignmentSet", "n2", <<R3>>, f2, NoVersion,
                            TRUE, FALSE) >>
    /\ call = NoCall
    /\ left = MaxCacheOps
    /\ ChunkIdle
    /\ HeapIdle
    /\ ReadIdle
    /\ SetIdle

\* ds[i].addFilters(f)
AddFilters(i, f) ==
    /\ left > 0
    /\ call.op # "split"
    /\ ds' = [ds EXCEPT ![i] = addFilters(@, f, FALSE)]
    /\ call' = [NoCall EXCEPT
                   !.op = "addFilters", !.self = i, !.arg = <<f>>,
                   !.outcome = "ok", !.pre = ds, !.self1 = <<ds'[i]>>]
    /\ left' = left - 1
    /\ UNCHANGED <<chunkVars, heapVars, readVars, setVars>>

\* ds[i].filters = f
SetFilters(i, f) ==
    /\ left > 0
    /\ call.op # "split"
    /\ ds' = [ds EXCEPT ![i] = setFilters(@, f)]
    /\ call' = [NoCall EXCEPT
                   !.op = "setFilters", !.self = i, !.arg = <<f>>,
                   !.outcome = "ok", !.pre = ds, !.self1 = <<ds'[i]>>]
    /\ left' = left - 1
    /\ UNCHANGED <<chunkVars, heapVars, readVars, setVars>>

\* ds[i].filters changed in place into f, through the filters property
MutateFilters(i, f) ==
    /\ left > 0
    /\ call.op # "split"
    /\ ds' = [ds EXCEPT ![i] = mutateFilters(@, f)]
    /\ call' = [NoCall EXCEPT
                   !.op = "mutateFilters", !.self = i, !.arg = <<f>>,
                   !.outcome = "ok", !.pre = ds, !.self1 = <<ds'[i]>>]
    /\ left' = left - 1
    /\ UNCHANGED <<chunkVars, heapVars, readVars, setVars>>

\* ds[i].disableFilters()
DisableFilters(i) ==
    /\ left > 0
    /\ call.op # "split"
    /\ ds' = [ds EXCEPT ![i] = disableFilters(@)]
    /\ call' = [NoCall EXCEPT
                   !.op = "disableFilters", !.self = i, !.outcome = "ok",
                   !.pre = ds, !.self1 = <<ds'[i]>>]
    /\ left' = left - 1
    /\ UNCHANGED <<chunkVars, heapVars, readVars, setVars>>

\* ds[i].enableFilters()
EnableFilters(i) ==
    /\ left > 0
    /\ call.op # "split"
    /\ ds' = [ds EXCEPT ![i] = enableFilters(@)]
    /\ call' = [NoCall EXCEPT
                   !.op = "enableFilters", !.self = i, !.outcome = "ok",
                   !.pre = ds, !.self1 = <<ds'[i]>>]
    /\ left' = left - 1
    /\ UNCHANGED <<chunkVars, heapVars, readVars, setVars>>

\* ds[i].index
Index(i) ==
    /\ left > 0
    /\ call.op # "split"
    /\ ds' = [ds EXCEPT ![i] = index(@)]
    /\ call' = [NoCall EXCEPT
                   !.op = "index", !.self = i, !.outcome = "ok",
                   !.pre = ds, !.self1 = <<ds'[i]>>]
    /\ left' = left - 1
    /\ UNCHANGED <<chunkVars, heapVars, readVars, setVars>>

\* ds[i].addExternalResources(newExt), updateCount left at True
AddExternalResourcesUpdate(i, newExt) ==
    /\ left > 0
    /\ call.op # "split"
    /\ ds' = [ds EXCEPT ![i] = addExternalResourcesUpdate(@, newExt)]
    /\ call' = [NoCall EXCEPT
                   !.op = "addExternalResourcesUpdate", !.self = i,
                   !.arg = newExt, !.outcome = "ok", !.pre = ds,
                   !.self1 = <<ds'[i]>>]
    /\ left' = left - 1
    /\ UNCHANGED <<chunkVars, heapVars, readVars, setVars>>

NextCache ==
    \/ \E i \in Slots, f \in FilterValues : AddFilters(i, f)
    \/ \E i \in Slots, f \in FilterValues : SetFilters(i, f)
    \/ \E i \in Slots, f \in FilterValues : MutateFilters(i, f)
    \/ \E i \in Slots : DisableFilters(i)
    \/ \E i \in Slots : EnableFilters(i)
    \/ \E i \in Slots : Index(i)
    \/ \E i \in Slots : ProcessFilters(i)
    \/ \E i \in Slots, l \in NewResourceLists : AddExternalResources(i, l)
    \/ \E i \in Slots, l \in NewResourceLists :
           AddExternalResourcesUpdate(i, l)
    \/ \E i \in Slots, j \in Slots, c \in BOOLEAN : Merge(i, j, c)
    \/ \E i \in Slots, n \in 0..MaxSplit, ign \in BOOLEAN : Split(i, n, ign)

SpecCache == InitCache /\ [][NextCache]_vars

(***************************************************************************)
(* DataSet objects by reference. An object of the heap is a record         *)
(*   res, filters, numRecords   as above                                   *)
(*   stats          metadata.summaryStats is present                       *)
(*   subs           self.subdatasets: the addresses of the subdatasets     *)
(* The DataSets are of one class and declare no Version, so that neither   *)
(* the type test nor _checkObjMetadata of merge raises; the UniqueId plays *)
(* no part here, objects are told apart by address.                        *)
(***************************************************************************)
\* largest number of objects the caller's calls may leave on the heap
MaxObjects == 9
\* number of calls made on the heap in one session
MaxHeapOps == 2
\* largest chunk count handed to split on the heap
MaxHeapSplit == 2

HeapObject(res, filters) ==
    [res |-> res, filters |-> filters, numRecords |-> numRecordsOf(res),
     stats |-> FALSE, subs |-> <<>>]

\* the objects reachable from the objects S through subdatasets
RECURSIVE ReachFrom(_, _, _)
ReachFrom(h, S, k) ==
    IF k = 0 THEN S
    ELSE ReachFrom(h, S \cup UNION {Range(h[x].subs) : x \in S}, k - 1)

Reach(h, S) == ReachFrom(h, S, Len(h))

\* the address copy.deepcopy gives the copy of x, S being what is copied
CopyOf(h, S, x) == Len(h) + Cardinality({y \in S : y <= x})

\* copy.deepcopy(h[i]) (DataSet.__deepcopy__, the memo keeping shared and
\* cyclic references shared in the copy): the heap with the copies added
deepcopyRef(h, i) ==
    LET S == Reach(h, {i})
        orig(k) == CHOOSE x \in S : CopyOf(h, S, x) = k
    IN  [k \in 1..Len(h) + Cardinality(S) |->
            IF k <= Len(h) THEN h[k]
            ELSE [h[orig(k)] EXCEPT
                      !.subs = IF @ = <<>> THEN <<>>
                               ELSE [m \in 1..Len(h[orig(k)].subs) |->
                                        CopyOf(h, S, h[orig(k)].subs[m])]]]

\* the address of the copy deepcopyRef(h, i) makes of h[i]
copyAddr(h, i) == CopyOf(h, Reach(h, {i}), i)

\* h[i].addDatasets(h[j]): the subdatasets of h[j], or h[j] itself, are put
\* in the list, not copies of them
addDatasetsRef(h, i, j) ==
    [h EXCEPT ![i].subs = IF h[j].subs # <<>> THEN @ \o h[j].subs
                          ELSE Append(@, j)]

\* h[i].merge(h[j], copyOnMerge): the outcome, the heap, the address returned
mergeRef(h, i, j, copyOnMerge) ==
    IF ~firstIn(h[i]) /\ ~testCompatibility(h[i].filters, h[j].filters)
    THEN [outcome |-> "None", heap |-> h, result |-> 0]
    ELSE
      LET first == firstIn(h[i])
          h1 == [h EXCEPT ![i].filters = FiltersMerge(@, h[j].filters)]
          \* result = self.copy() / result = self
          h2 == IF copyOnMerge THEN deepcopyRef(h1, i) ELSE h1
          r  == IF copyOnMerge THEN copyAddr(h1, i) ELSE i
          \* result.addDatasets(self.copy())
          h3 == IF h2[i].subs = <<>> /\ ~first
                THEN addDatasetsRef(deepcopyRef(h2, i), r, copyAddr(h2, i))
                ELSE h2
          \* result.addDatasets(other.copy())
          h4 == IF h3[j].subs # <<>> \/ ~first
                THEN addDatasetsRef(deepcopyRef(h3, j), r, copyAddr(h3, j))
                ELSE h3
          \* result.metadata = other.metadata / result.addMetadata(...)
          h5 == [h4 EXCEPT
                    ![r].numRecords = IF first THEN h4[j].numRecords
                                      ELSE MetadataMerge(@, h4[j].numRecords),
                    ![r].stats = IF first THEN h4[j].stats
                                 ELSE @ \/ h4[j].stats]
          h6 == [h5 EXCEPT ![r].res = ExternalResourcesMerge(
                                          @, ExternalResourcesMerge(
                                                 <<>>, h5[j].res))]
      IN  [outcome |-> "ok", heap |-> h6, result |-> r]

\* h[i].loadStats(statsMetadata)
loadStats(h, i) ==
    IF h[i].stats
    THEN LET \* newSub = self.copy(), its SummaryStats replaced
             h1 == deepcopyRef(h, i)
             newSub == copyAddr(h, i)
             h2 == [h1 EXCEPT ![newSub].stats = TRUE]
             \* self.addDatasets(self.copy()); self.addDatasets(newSub)
             h3 == addDatasetsRef(deepcopyRef(h2, i), i, copyAddr(h2, i))
         IN  addDatasetsRef(h3, i, newSub)
    ELSE [h EXCEPT ![i].stats = TRUE]

\* the copies a split makes one after the other: copy number c of h[i] gets
\* the members <parts[c]> in place of its own
RECURSIVE SplitCopies(_, _, _, _, _)
SplitCopies(h, i, parts, bySubs, c) ==
    IF c > Len(parts) THEN [heap |-> h, out |-> <<>>]
    ELSE LET h1 == deepcopyRef(h, i)
             a == copyAddr(h, i)
             h2 == IF bySubs THEN [h1 EXCEPT ![a].subs = parts[c]]
                   ELSE [h1 EXCEPT ![a].res = parts[c]]
             rest == SplitCopies(h2, i, parts, bySubs, c + 1)
         IN  [heap |-> rest.heap, out |-> <<a>> \o rest.out]

\* h[i]._split_subdatasets(chunks)
_split_subdatasetsRef(h, i, nchunks) ==
    LET subs == h[i].subs
        n == IF nchunks = 0 \/ nchunks > Len(subs) THEN Len(subs)
             ELSE nchunks
    IN  IF n = Len(subs) /\ \A k \in 1..Len(subs) : h[subs[k]].res # <<>>
        THEN [heap |-> h, out |-> subs]
        ELSE LET keys == [k \in 1..Len(subs) |-> h[subs[k]].numRecords]
                 lists == _chunkList(keys, n)
             IN  SplitCopies(h, i, [c \in 1..n |-> Pick(subs, lists[c])],
                             TRUE, 1)

\* h[i].split(chunks, ignoreSubDatasets): the heap and the addresses returned
splitRef(h, i, nchunks, ignoreSubDatasets) ==
    IF Len(h[i].subs) > 1 /\ ~ignoreSubDatasets
    THEN _split_subdatasetsRef(h, i, nchunks)
    ELSE
      LET atoms == h[i].res
          n == IF nchunks = 0 \/ nchunks > Len(atoms) THEN Len(atoms)
               ELSE nchunks
          keys == [k \in 1..Len(atoms) |-> atoms[k].nchild]
          lists == _chunkList(keys, n)
      IN  IF n = 1
          THEN [heap |-> deepcopyRef(h, i), out |-> <<copyAddr(h, i)>>]
          ELSE SplitCopies(h, i, [c \in 1..n |-> Pick(atoms, lists[c])],
                           FALSE, 1)

\* what the caller can get hold of: what it was handed, and the subdatasets
\* of that
Accessible == Reach(heap, held)

InitHeap ==
    /\ \E fp \in {<<{}, {}>>, <<{"fA"}, {"fA"}>>, <<{"fA"}, {"fB"}>>},
          r1 \in {<<>>, <<R1, R2>>}, r2 \in {<<R3>>, <<R2>>} :
          heap = << HeapObject(r1, fp[1]), HeapObject(r2, fp[2]),
                    HeapObject(<<R4>>, fp[1]) >>
    /\ held = {1, 2, 3}
    /\ hcall = NoHeapCall
    /\ hleft = MaxHeapOps
    /\ ds = <<>>
    /\ call = NoCall
    /\ left = 0
    /\ ChunkIdle
    /\ ReadIdle
    /\ SetIdle

\* heap[i].merge(heap[j], copyOnMerge)
MergeRef(i, j, copyOnMerge) ==
    /\ hleft > 0
    /\ LET m == mergeRef(heap, i, j, copyOnMerge)
       IN  /\ Len(m.heap) <= MaxObjects
           /\ heap' = m.heap
           /\ held' = IF m.outcome = "ok" THEN held \cup {m.result} ELSE held
           /\ hcall' = [NoHeapCall EXCEPT
                           !.op = "merge", !.self = i, !.other = j,
                           !.flag = copyOnMerge, !.outcome = m.outcome,
                           !.pre = heap,
                           !.out = IF m.outcome = "ok" THEN <<m.result>>
                                   ELSE <<>>]
    /\ hleft' = hleft - 1
    /\ UNCHANGED <<dsVars, chunkVars, readVars, setVars>>

\* heap[i].addDatasets(heap[j])
AddDatasetsRef(i, j) ==
    /\ hleft > 0
    /\ heap' = addDatasetsRef(heap, i, j)
    /\ hcall' = [NoHeapCall EXCEPT
                    !.op = "addDatasets", !.self = i, !.other = j,
                    !.outcome = "ok", !.pre = heap]
    /\ hleft' = hleft - 1
    /\ UNCHANGED <<held, dsVars, chunkVars, readVars, setVars>>

\* heap[i].loadStats(...)
LoadStats(i) ==
    /\ hleft > 0
    /\ Len(loadStats(heap, i)) <= MaxObjects
    /\ heap' = loadStats(heap, i)
    /\ hcall' = [NoHeapCall EXCEPT
                    !.op = "loadStats", !.self = i, !.outcome = "ok",
                    !.pre = heap]
    /\ hleft' = hleft - 1
    /\ UNCHANGED <<held, dsVars, chunkVars, readVars, setVars>>

\* heap[i].split(chunks=n, ignoreSubDatasets=ign)
SplitRef(i, n, ign) ==
    /\ hleft > 0
    /\ LET sp == splitRef(heap, i, n, ign)
       IN  /\ Len(sp.heap) <= MaxObjects
           /\ heap' = sp.heap
           /\ held' = held \cup Range(sp.out)
           /\ hcall' = [NoHeapCall EXCEPT
                           !.op = "split", !.self = i, !.nchunks = n,
                           !.flag = ign, !.outcome = "ok", !.pre = heap,
                           !.out = sp.out]
    /\ hleft' = hleft - 1
    /\ UNCHANGED <<dsVars, chunkVars, readVars, setVars>>

NextHeap ==
    \/ \E i \in Accessible, j \in Accessible, c \in BOOLEAN :
           MergeRef(i, j, c)
    \/ \E i \in Accessible, j \in Accessible : AddDatasetsRef(i, j)
    \/ \E i \in Accessible : LoadStats(i)
    \/ \E i \in Accessible, n \in 0..MaxHeapSplit, ign \in BOOLEAN :
           SplitRef(i, n, ign)

SpecHeap == InitHeap /\ [][NextHeap]_vars

(***************************************************************************)
(* AlignmentSet.readsInRange without the index: the merge of the range     *)
(* iterators of the resource readers by tStart. A read is a record         *)
(* [rr, row, tId, tStart, tEnd]: reader number, row in the file, and the   *)
(* reference, start and end of the alignment. next(it, None) is a sequence *)
(* of one read, or the empty sequence for None. The parallel lists         *)
(* read_its, deep_buf (currents), buf_indices and tStarts are one list of  *)
(* lanes, a lane holding the entry each of them has at one position.       *)
(***************************************************************************)
\* largest number of readers merged
MaxReaders == 3
\* largest number of reads one range iterator gives
MaxReads == 3
\* largest tStart of a read
MaxStart == 1
\* largest buffsize
MaxBuff == 3

Read(rr, row, tId, tStart, tEnd) ==
    [rr |-> rr, row |-> row, tId |-> tId, tStart |-> tStart, tEnd |-> tEnd]

\* [next(it, None) for _ in range(buffsize)]
FillBuf(it, buffsize) ==
    [k \in 1..buffsize |-> IF k <= Len(it) THEN <<it[k]>> ELSE <<>>]

\* the iterator after buffsize calls of next
Advance(it, buffsize) ==
    IF buffsize >= Len(it) THEN <<>> ELSE SubSeq(it, buffsize + 1, Len(it))

DeleteAt(s, i) == SubSeq(s, 1, i - 1) \o SubSeq(s, i + 1, Len(s))

\* tStarts.index(min(tStarts))
FirstI(lanes) ==
    LET first == MinOfSet({lanes[k].tStart : k \in 1..Len(lanes)})
    IN  MinOfSet({k \in 1..Len(lanes) : lanes[k].tStart = first})

\* buffsize > 1: the caches as filled before the loop, the empty iterators
\* removed
BufInit(lists, buffsize) ==
    LET all == [k \in 1..Len(lists) |->
                   [read_it    |-> Advance(lists[k], buffsize),
                    deep_buf   |-> FillBuf(lists[k], buffsize),
                    buf_index  |-> 0,
                    tStart     |-> IF lists[k] = <<>> THEN 0
                                   ELSE lists[k][1].tStart]]
    IN  SelectSeq(all, LAMBDA lane : lane.deep_buf[1] # <<>>)

BufStepNoRefill(lanes, buffsize) ==
    LET first_i == FirstI(lanes)
        lane == lanes[first_i]
        first == lane.deep_buf[lane.buf_index + 1][1]
        refill == lane.buf_index + 1 = buffsize
        buf == IF refill THEN FillBuf(<<>>, buffsize) ELSE lane.deep_buf
        buf_index == IF refill THEN 0 ELSE lane.buf_index + 1
    IN  [lanes |-> IF buf[buf_index + 1] = <<>> THEN DeleteAt(lanes, first_i)
                   ELSE [lanes EXCEPT ![first_i] =
                            [read_it   |-> lane.read_it,
                             deep_buf  |-> buf,
                             buf_index |-> buf_index,
                             tStart    |-> buf[buf_index + 1][1].tStart]],
         yield |-> first]

\* buffsize > 1: one turn of the while loop; the lanes left and the read
\* yielded
BufStep(lanes, buffsize) ==
    LET first_i == FirstI(lanes)
        lane == lanes[first_i]
        first == lane.deep_buf[lane.buf_index + 1][1]
        refill == lane.buf_index + 1 = buffsize
        buf == IF refill THEN FillBuf(lane.read_it, buffsize)
               ELSE lane.deep_buf
        it == IF refill THEN Advance(lane.read_it, buffsize)
              ELSE lane.read_it
        buf_index == IF refill THEN 0 ELSE lane.buf_index + 1
    IN  [lanes |-> IF buf[buf_index + 1] = <<>> THEN DeleteAt(lanes, first_i)
                   ELSE [lanes EXCEPT ![first_i] =
                            [read_it   |-> it,
                             deep_buf  |-> buf,
                             buf_index |-> buf_index,
                             tStart    |-> buf[buf_index + 1][1].tStart]],
         yield |-> first]

\* buffsize <= 1: one element buffered from each generator, the empty ones
\* removed
LookInit(lists) ==
    LET all == [k \in 1..Len(lists) |->
                   [read_it  |-> Advance(lists[k], 1),
                    currents |-> FillBuf(lists[k], 1)[1],
                    tStart   |-> IF lists[k] = <<>> THEN 0
                                 ELSE lists[k][1].tStart]]
    IN  SelectSeq(all, LAMBDA lane : lane.currents # <<>>)

\* buffsize <= 1: one turn of the while loop
LookStep(lanes) ==
    LET first_i == FirstI(lanes)
        lane == lanes[first_i]
    IN  [lanes |-> IF lane.read_it = <<>> THEN DeleteAt(lanes, first_i)
                   ELSE [lanes EXCEPT ![first_i] =
                            [read_it  |-> Tail(lane.read_it),
                             currents |-> <<Head(lane.read_it)>>,
                             tStart   |-> Head(lane.read_it).tStart]],
         yield |-> lane.currents[1]]

MergeInit(lists, buffsize) ==
    IF buffsize > 1 THEN BufInit(lists, buffsize) ELSE LookInit(lists)

MergeStep(lanes, buffsize) ==
    IF buffsize > 1 THEN BufStep(lanes, buffsize) ELSE LookStep(lanes)

\* the while loop run until read_its is empty: all it yields
RECURSIVE MergeLoop(_, _)
MergeLoop(lanes, buffsize) ==
    IF lanes = <<>> THEN <<>>
    ELSE LET st == MergeStep(lanes, buffsize)
         IN  <<st.yield>> \o MergeLoop(st.lanes, buffsize)

RECURSIVE Concat(_)
Concat(lists) == IF lists = <<>> THEN <<>>
                 ELSE Head(lists) \o Concat(Tail(lists))

\* the part of readsInRange after the index path: <lists> is what
\* rr.readsInRange(refName, start, end) gives for each open reader
mergeReadsInRange(lists, numExternalResources, buffsize) ==
    IF numExternalResources > 1
    THEN MergeLoop(MergeInit(lists, buffsize), buffsize)
    ELSE Concat(lists)

\* the reads a range iterator may give: rows in file order, any tStart
ReadLists(rr) ==
    UNION {{[row \in 1..n |-> Read(rr, row, 0, t[row], t[row] + 1)] :
               t \in [1..n -> 0..MaxStart]} : n \in 0..MaxReads}

InitMerge ==
    /\ \E n \in 1..MaxReaders, buffsize \in 1..MaxBuff :
          \E lists \in [1..n -> UNION {ReadLists(rr) : rr \in 1..n}] :
              /\ \A k \in 1..n : lists[k] \in ReadLists(k)
              /\ mg = [lists |-> lists, buffsize |-> buffsize,
                       lanes |-> <<>>, plain |-> <<>>, out |-> <<>>,
                       pc |-> "start"]
    /\ aset = <<>>
    /\ query = <<>>
    /\ zs = <<>>
    /\ ds = <<>>
    /\ call = NoCall
    /\ left = 0
    /\ ChunkIdle
    /\ HeapIdle
    /\ SetIdle

\* more than one resource: the iterators are made and the buffers filled
MergeStart ==
    /\ mg.pc = "start"
    /\ Len(mg.lists) > 1
    /\ mg' = [mg EXCEPT !.lanes = MergeInit(mg.lists, mg.buffsize),
                        !.pc = "loop"]
    /\ UNCHANGED <<aset, query, zs, dsVars, chunkVars, heapVars, setVars>>

\* one turn of the while loop, yielding one read
MergeYield ==
    /\ mg.pc = "loop"
    /\ mg.lanes # <<>>
    /\ LET st == MergeStep(mg.lanes, mg.buffsize)
       IN  mg' = [mg EXCEPT !.lanes = st.lanes,
                            !.out = Append(@, st.yield)]
    /\ UNCHANGED <<aset, query, zs, dsVars, chunkVars, heapVars, setVars>>

\* read_its is empty: the generator ends
MergeStop ==
    /\ mg.pc = "loop"
    /\ mg.lanes = <<>>
    /\ mg' = [mg EXCEPT !.pc = "done"]
    /\ UNCHANGED <<aset, query, zs, dsVars, chunkVars, heapVars, setVars>>

\* one resource: its reads are yielded as its reader gives them
PlainStart ==
    /\ mg.pc = "start"
    /\ Len(mg.lists) <= 1
    /\ mg' = [mg EXCEPT !.plain = Concat(mg.lists), !.pc = "plain"]
    /\ UNCHANGED <<aset, query, zs, dsVars, chunkVars, heapVars, setVars>>

PlainYield ==
    /\ mg.pc = "plain"
    /\ mg.plain # <<>>
    /\ mg' = [mg EXCEPT !.plain = Tail(@), !.out = Append(@, Head(mg.plain))]
    /\ UNCHANGED <<aset, query, zs, dsVars, chunkVars, heapVars, setVars>>

PlainStop ==
    /\ mg.pc = "plain"
    /\ mg.plain = <<>>
    /\ mg' = [mg EXCEPT !.pc = "done"]
    /\ UNCHANGED <<aset, query, zs, dsVars, chunkVars, heapVars, setVars>>

NextMerge ==
    \/ MergeStart
    \/ MergeYield
    \/ MergeStop
    \/ PlainStart
    \/ PlainYield
    \/ PlainStop

SpecMerge == InitMerge /\ [][NextMerge]_vars

(***************************************************************************)
(* AlignmentSet.readsInRange over the index of the dataset, next to the    *)
(* scan of the resource readers. A reference name is a number (its rank in *)
(* the order of names). A reader is a record [Name, tbl, recs]: Name is    *)
(* the column referenceInfoTable['Name'], whose row ID is its position     *)
(* counted from 0; tbl is rr.index._tbl, rows [tId, tStart, tEnd], an      *)
(* array the dataset writes in place; recs are the alignments in the file, *)
(* rows [Name, tStart, tEnd]. A filter is a smallest tStart a record may   *)
(* have; <<>> is no filter.                                                *)
(***************************************************************************)
\* number of reference names
MaxRefs == 2
\* largest number of alignments in the files of one AlignmentSet
MaxRecs == 2
\* largest number of files of the AlignmentSet
MaxFiles == 2
\* largest number of calls made on the AlignmentSet
MaxRangeOps == 3

\* position of name in a column of distinct names, counted from 0
RowOf(Name, name) == (CHOOSE n \in 1..Len(Name) : Name[n] = name) - 1

\* a reader as it is opened: its index holds the tId of the file
Reader(Name, recs) ==
    [Name |-> Name,
     recs |-> recs,
     tbl  |-> [i \in 1..Len(recs) |->
                  [tId    |-> RowOf(Name, recs[i].Name),
                   tStart |-> recs[i].tStart,
                   tEnd   |-> recs[i].tEnd]]]

\* rr.atRowNumber(row): the alignment at a row of the file
atRowNumber(readers, rr, row) ==
    Read(rr, row, RowOf(readers[rr].Name, readers[rr].recs[row].Name),
         readers[rr].recs[row].tStart, readers[rr].recs[row].tEnd)

\* rr.readsInRange(refName, start, end): the alignments of the file on
\* refName that overlap the window, in the order of the file
readerReadsInRange(readers, rr, refName, start, end) ==
    LET rows == [row \in 1..Len(readers[rr].recs) |->
                     atRowNumber(readers, rr, row)]
        hit(read) == /\ readers[rr].recs[read.row].Name = refName
                     /\ read.tStart < end
                     /\ read.tEnd > start
    IN  SelectSeq(rows, hit)

\* the rows [ID, Name] of the reference table of a reader
readerReferenceInfoTable(reader) ==
    [n \in 1..Len(reader.Name) |-> [ID |-> n - 1, Name |-> reader.Name[n]]]

\* np.unique(table): the distinct rows in ascending order of (ID, Name)
RowBefore(r, s) == r.ID < s.ID \/ (r.ID = s.ID /\ r.Name < s.Name)

unique(rows) ==
    LET n == Cardinality(rows)
    IN  [k \in 1..n |->
            CHOOSE r \in rows :
                Cardinality({s \in rows : RowBefore(s, r)}) = k - 1]

\* the property referenceInfoTable: the table of the readers if they agree,
\* else their distinct rows renumbered; kept once computed
referenceInfoTable(a) ==
    IF a.referenceInfoTable # <<>> THEN a
    ELSE LET responses == [rr \in 1..Len(a.readers) |->
                              readerReferenceInfoTable(a.readers[rr])]
             mismatch == \E rr \in 1..Len(responses) :
                             responses[rr] # responses[1]
             stacked == unique(UNION {Range(responses[rr]) :
                                         rr \in 1..Len(responses)})
             table == IF mismatch
                      THEN [i \in 1..Len(stacked) |->
                               [stacked[i] EXCEPT !.ID = i - 1]]
                      ELSE responses[1]
         IN  [a EXCEPT !.referenceInfoTable = <<table>>,
                       !._stackedReferenceInfoTable = @ \/ mismatch]

\* {name: rId for name, rId in self.refInfo('ID')}: the last row of a name
\* gives its id; the domain is the set refNames
refIds(table) ==
    [name \in {table[i].Name : i \in 1..Len(table)} |->
        LET last == CHOOSE i \in 1..Len(table) :
                        /\ table[i].Name = name
                        /\ \A j \in 1..Len(table) :
                              table[j].Name = name => j <= i
        IN  table[last].ID]

\* filterIndexRecords(tbl, nameMap) and the test of a read: the record
\* starts at or after the filter
passesFilters(filters, rec) == filters = <<>> \/ rec.tStart >= filters[1]

\* for i in range(len(tbl)): tbl.tId[i] = nameMap[tIdMap[tbl.tId[i]]], in
\* place: the rows before the first KeyError are written
correctIds(tbl, tIdMap, nameMap) ==
    LET ok(i) == /\ tbl[i].tId \in DOMAIN tIdMap
                 /\ tIdMap[tbl[i].tId] \in DOMAIN nameMap
        bad == {i \in 1..Len(tbl) : ~ok(i)}
        stop == IF bad = {} THEN Len(tbl) + 1 ELSE MinOfSet(bad)
    IN  [tbl |-> [i \in 1..Len(tbl) |->
                     IF i < stop
                     THEN [tbl[i] EXCEPT !.tId = nameMap[tIdMap[tbl[i].tId]]]
                     ELSE tbl[i]],
         err |-> bad # {}]

\* one turn of the loop of _indexRecords over the readers; st holds the
\* readers, the rows gathered so far and whether a KeyError was raised
indexReader(a, st, rrNum) ==
    LET rr == st.readers[rrNum]
        correct == a._stackedReferenceInfoTable
        tIdMap == [n \in 0..(Len(rr.Name) - 1) |-> rr.Name[n + 1]]
        ownMap == [name \in Range(rr.Name) |-> RowOf(rr.Name, name)]
        nameMap == IF a.filters = <<>>
                   THEN refIds(a.referenceInfoTable[1])
                   ELSE ownMap
        passes == {i \in 1..Len(rr.tbl) : passesFilters(a.filters, rr.tbl[i])}
        fixed == IF correct THEN correctIds(rr.tbl, tIdMap, nameMap)
                 ELSE [tbl |-> rr.tbl, err |-> FALSE]
        rows == [i \in 1..Len(fixed.tbl) |->
                    Read(rrNum, i, fixed.tbl[i].tId, fixed.tbl[i].tStart,
                         fixed.tbl[i].tEnd)]
        keep(read) == read.row \in passes
    IN  [readers |-> [st.readers EXCEPT ![rrNum].tbl = fixed.tbl],
         recs    |-> IF fixed.err THEN st.recs
                     ELSE st.recs \o SelectSeq(rows, keep),
         err     |-> fixed.err]

RECURSIVE indexLoop(_, _, _)
indexLoop(a, st, rrNum) ==
    IF st.err \/ rrNum > Len(st.readers) THEN st
    ELSE indexLoop(a, indexReader(a, st, rrNum), rrNum + 1)

\* AlignmentSet._indexRecords: the index rows, each with its (reader, row)
\* of _indexMap
_indexRecords(a) ==
    indexLoop(a, [readers |-> a.readers, recs |-> <<>>, err |-> FALSE], 1)

\* the property index: built when it is None; a KeyError leaves it None.
\* The result holds the dataset and whether the access raised.
indexOf(a) ==
    IF a.index # <<>> THEN [a |-> a, err |-> FALSE]
    ELSE LET st == _indexRecords(a)
         IN  [a   |-> [a EXCEPT !.readers = st.readers,
                                !.index = IF st.err THEN <<>>
                                          ELSE <<st.recs>>],
              err |-> st.err]

\* argsort(kind='mergesort') on tStart: ascending, ties in given order
RECURSIVE sortByStart(_)
sortByStart(reads) ==
    IF reads = <<>> THEN <<>>
    ELSE LET first == MinOfSet({reads[i].tStart : i \in 1..Len(reads)})
             isFirst(r) == r.tStart = first
             notFirst(r) == r.tStart # first
         IN  SelectSeq(reads, isFirst) \o sortByStart(SelectSeq(reads, notFirst))

\* _pbiReadsInRange, longest = False: the reads the index path gives
_pbiReadsInRange(a, refName, start, end) ==
    LET a1 == referenceInfoTable(a)
        ids == refIds(a1.referenceInfoTable[1])
        ix == indexOf(a1)
        passes(rec) == /\ rec.tId = ids[refName]
                       /\ rec.tStart < end
                       /\ rec.tEnd > start
        mapPasses == SelectSeq(ix.a.index[1], passes)
        ordered == IF Len(a.readers) > 1 THEN sortByStart(mapPasses)
                   ELSE mapPasses
    IN  IF refName \notin DOMAIN ids
        THEN [a |-> a1, err |-> FALSE, out |-> <<>>]
        ELSE IF ix.err
        THEN [a |-> ix.a, err |-> TRUE, out |-> <<>>]
        ELSE [a |-> ix.a, err |-> FALSE,
              out |-> [k \in 1..Len(ordered) |->
                          atRowNumber(ix.a.readers, ordered[k].rr,
                                      ordered[k].row)]]

\* the decorator filtered: the reads that pass the tests of the filters
filtered(a, reads) ==
    LET test(read) == passesFilters(a.filters, read)
    IN  SelectSeq(reads, test)

\* readsInRange(refName, start, end, buffsize, usePbi) on a dataset whose
\* resources all have a pbi
readsInRange(a, refName, start, end, buffsize, usePbi) ==
    IF usePbi
    THEN LET r == _pbiReadsInRange(a, refName, start, end)
         IN  [r EXCEPT !.out = filtered(a, @)]
    ELSE LET lists == [rr \in 1..Len(a.readers) |->
                          readerReadsInRange(a.readers, rr, refName,
                                             start, end)]
         IN  [a   |-> a,
              err |-> FALSE,
              out |-> filtered(a, mergeReadsInRange(lists, Len(a.readers),
                                                    buffsize))]

\* the orders of the reference names in the header of a file
RefOrders ==
    {Name \in [1..MaxRefs -> 1..MaxRefs] :
        \A i, j \in 1..MaxRefs : Name[i] = Name[j] => i = j}

FileRecs ==
    SeqsUpTo({[Name |-> n, tStart |-> t, tEnd |-> t + 1] :
                 n \in 1..MaxRefs, t \in 0..MaxStart}, MaxRecs)

Readers == {Reader(Name, recs) : Name \in RefOrders, recs \in FileRecs}

\* an AlignmentSet made from files (the constructor counts the records and
\* so builds the index) or read from XML that has the counts (no index yet)
NewAlignmentSet(readers, counted) ==
    LET a == [readers |-> readers, filters |-> <<>>,
              referenceInfoTable |-> <<>>,
              _stackedReferenceInfoTable |-> FALSE,
              index |-> <<>>, ops |-> MaxRangeOps]
    IN  IF counted THEN a ELSE indexOf(a).a

InitRange ==
    /\ \E n \in 1..MaxFiles, counted \in BOOLEAN :
          \E readers \in [1..n -> Readers] :
              /\ SumSeq([rr \in 1..n |-> Len(readers[rr].recs)]) <= MaxRecs
              /\ aset = NewAlignmentSet(readers, counted)
    /\ query = <<>>
    /\ mg = <<>>
    /\ zs = <<>>
    /\ ds = <<>>
    /\ call = NoCall
    /\ left = 0
    /\ ChunkIdle
    /\ HeapIdle
    /\ SetIdle

\* no query is being answered
QueryIdle == IF query = <<>> THEN TRUE ELSE query.pc = "done"

\* readsInRange(refName, start, end, buffsize) is called; the generator of
\* the index path first looks the name up in self.refNames, which computes
\* the reference table
QueryRefNames(refName, start, end, buffsize) ==
    /\ aset.ops > 0
    /\ QueryIdle
    /\ aset' = [referenceInfoTable(aset) EXCEPT !.ops = @ - 1]
    /\ query' = [refName |-> refName, start |-> start, end |-> end,
                 buffsize |-> buffsize, filters |-> aset.filters,
                 pbiErr |-> FALSE, pbi |-> <<>>, scan |-> <<>>,
                 pc |-> "index"]
    /\ UNCHANGED <<mg, zs, dsVars, chunkVars, heapVars, setVars>>

\* it then reads self.index, which builds the index if there is none; a
\* KeyError ends the generator
QueryIndex ==
    /\ query # <<>>
    /\ query.pc = "index"
    /\ LET known == query.refName
                        \in DOMAIN refIds(aset.referenceInfoTable[1])
           ix == indexOf(aset)
       IN  IF known
           THEN /\ aset' = ix.a
                /\ query' = [query EXCEPT !.pbiErr = ix.err,
                                           !.pc = "records"]
           ELSE /\ aset' = aset
                /\ query' = [query EXCEPT !.pc = "records"]
    /\ UNCHANGED <<mg, zs, dsVars, chunkVars, heapVars, setVars>>

\* the records the query yields through the index, and next to them the
\* records the same query yields with usePbi = False
QueryRecords ==
    /\ query # <<>>
    /\ query.pc = "records"
    /\ query' = [query EXCEPT
                    !.pbi = IF query.pbiErr THEN <<>>
                            ELSE readsInRange(aset, query.refName,
                                              query.start, query.end,
                                              query.buffsize, TRUE).out,
                    !.scan = readsInRange(aset, query.refName, query.start,
                                          query.end, query.buffsize,
                                          FALSE).out,
                    !.pc = "done"]
    /\ UNCHANGED <<aset, mg, zs, dsVars, chunkVars, heapVars, setVars>>

\* reFilter(): the index and its map are dropped, the reference table and
\* the arrays of the readers are kept
ReFilterIndex ==
    /\ aset.ops > 0
    /\ QueryIdle
    /\ aset' = [aset EXCEPT !.index = <<>>, !.ops = @ - 1]
    /\ UNCHANGED <<query, mg, zs, dsVars, chunkVars, heapVars, setVars>>

\* addFilters: a filter on tStart is added, then reFilter
AddStartFilter(minStart) ==
    /\ aset.ops > 0
    /\ QueryIdle
    /\ aset.filters = <<>>
    /\ aset' = [aset EXCEPT !.filters = <<minStart>>, !.index = <<>>,
                            !.ops = @ - 1]
    /\ UNCHANGED <<query, mg, zs, dsVars, chunkVars, heapVars, setVars>>

NextRange ==
    \/ \E refName \in 1..MaxRefs, start \in 0..MaxStart, buffsize \in 1..2 :
          \E end \in (start + 1)..(MaxStart + 1) :
              QueryRefNames(refName, start, end, buffsize)
    \/ QueryIndex
    \/ QueryRecords
    \/ ReFilterIndex
    \/ AddStartFilter(1)

SpecRange == InitRange /\ [][NextRange]_vars

(***************************************************************************)
(* ReadSet._split_zmws. A file is a record [holeNumber, readGroups]: the   *)
(* column holeNumber of its index in file order and the number of rows of  *)
(* its readGroupTable; the movie of file number f is f. A chunk returned   *)
(* is the list of the requirements added to the filters of its copy:       *)
(* [movie, zmw_start, zmw_end] stands for movie = MovieName,               *)
(* zm < zmw_end + 1 and zm > zmw_start - 1. Positions in holeNumber count  *)
(* from 0 as in the code.                                                  *)
(***************************************************************************)
\* largest number of files of the ReadSet
MaxBams == 2
\* largest number of records in one file
MaxHoles == 4
\* largest hole number
MaxZmw == 3
\* largest chunk count handed to the ZMW split
MaxZmwChunks == 4

\* max(...) of a non-empty set of numbers
MaxOfSet(S) == CHOOSE x \in S : \A y \in S : y <= x

\* one turn of the loop over the chunks of a file: the window cut from
\* i_read on and the position after it
zmwWindow(holeNumber, i_read, chunk_size, lastChunk) ==
    LET n_reads == Len(holeNumber)
        hn(i) == holeNumber[i + 1]
        i1 == i_read + chunk_size
        zmw_end == hn(IF i1 < n_reads - 1 THEN i1 ELSE n_reads - 1)
        \* the while loop: on across the records of the same hole number
        i2 == IF i1 < n_reads - 1
              THEN MaxOfSet({i \in i1..(n_reads - 1) :
                                \A k \in (i1 + 1)..i : hn(k) = zmw_end})
              ELSE i1
    IN  IF lastChunk
        THEN [zmw_start |-> hn(i_read),
              zmw_end   |-> MaxOfSet(Range(holeNumber)),
              i_read    |-> i_read + 1]
        ELSE [zmw_start |-> hn(i_read),
              zmw_end   |-> zmw_end,
              i_read    |-> i2 + 1]

\* for i_chunk in range(n_chunks_per_bam): the windows of one file
RECURSIVE zmwWindows(_, _, _, _, _)
zmwWindows(movie, holeNumber, n_chunks_per_bam, i_chunk, i_read) ==
    IF i_chunk >= n_chunks_per_bam \/ i_read >= Len(holeNumber) THEN <<>>
    ELSE LET chunk_size == Len(holeNumber) \div n_chunks_per_bam
             w == zmwWindow(holeNumber, i_read, chunk_size,
                            i_chunk = n_chunks_per_bam - 1)
         IN  <<[movie |-> movie, zmw_start |-> w.zmw_start,
                zmw_end |-> w.zmw_end]>>
             \o zmwWindows(movie, holeNumber, n_chunks_per_bam, i_chunk + 1,
                           w.i_read)

\* _split_zmws(chunks): the outcome and the chunks returned
_split_zmws(files, nchunks) ==
    LET n_bam == Len(files)
        floor == nchunks \div n_bam
        n_chunks_per_bam == IF floor > 1 THEN floor ELSE 1
        active_holenumbers ==
            SumSeq([f \in 1..n_bam |->
                       Cardinality(Range(files[f].holeNumber))])
        n_chunks == IF active_holenumbers < n_bam * n_chunks_per_bam
                    THEN active_holenumbers
                    ELSE n_bam * n_chunks_per_bam
        windows == Concat([f \in 1..n_bam |->
                              zmwWindows(f, files[f].holeNumber,
                                         n_chunks_per_bam, 0, 0)])
    IN  IF \E f \in 1..n_bam : files[f].readGroups > 1
        THEN [outcome |-> "RuntimeError", out |-> <<>>]
        ELSE IF nchunks < n_bam
        \* return self.split(chunks=chunks): the split by resource
        THEN [outcome |-> "split", out |-> <<>>]
        ELSE IF Len(windows) > n_chunks
        \* results[j_chunk] past the end of results
        THEN [outcome |-> "IndexError", out |-> <<>>]
        ELSE [outcome |-> "ok",
              out |-> [j \in 1..n_chunks |->
                          IF j <= Len(windows) THEN <<windows[j]>>
                          ELSE <<>>]]

InitZmws ==
    /\ \E n \in 1..MaxBams :
          \E files \in [1..n -> [holeNumber : SeqsUpTo(1..MaxZmw, MaxHoles),
                                 readGroups : 1..2]] :
              zs = [files |-> files, chunks |-> 0, outcome |-> "",
                    out |-> <<>>]
    /\ mg = <<>>
    /\ aset = <<>>
    /\ query = <<>>
    /\ ds = <<>>
    /\ call = NoCall
    /\ left = 0
    /\ ChunkIdle
    /\ HeapIdle
    /\ SetIdle

\* split(zmws=True, chunks=nchunks)
SplitZmws(nchunks) ==
    /\ zs.outcome = ""
    /\ LET sp == _split_zmws(zs.files, nchunks)
       IN  zs' = [zs EXCEPT !.chunks = nchunks, !.outcome = sp.outcome,
                            !.out = sp.out]
    /\ UNCHANGED <<mg, aset, query, dsVars, chunkVars, heapVars, setVars>>

NextZmws == \E nchunks \in 1..MaxZmwChunks : SplitZmws(nchunks)

SpecZmws == InitZmws /\ [][NextZmws]_vars

(***************************************************************************)
(* Iteration over the records of a DataSet under its filters. A record is  *)
(* the number its filters test; a file is the sequence of its records. A   *)
(* filter group is a set of requirements [op, value], and the test made    *)
(* from a group passes a record that meets all of them, so the test of the *)
(* empty group is lambda x: True. _cachedFilters is <<>> when it is the    *)
(* empty list, else <<the set of the tests cached>>.                       *)
(***************************************************************************)
\* largest number of files of the DataSet iterated
MaxIterFiles == 2
\* largest number of records in one of its files
MaxIterRecs == 2
\* largest value a record carries
MaxValue == 2
\* largest number of calls made on the DataSet iterated
MaxIterOps == 3

\* a test of filters.tests() applied to a record
testPasses(test, rec) ==
    \A q \in test : IF q.op = ">=" THEN rec >= q.value ELSE rec <= q.value

\* processFilters() on the DataSet r: the tests and the DataSet, its cache
\* filled
processFiltersOf(r) ==
    IF r._cachedFilters # <<>>
    THEN [tests |-> r._cachedFilters[1], r |-> r]
    ELSE LET tests == IF r.filters = {} THEN {{}} ELSE r.filters
         IN  [tests |-> tests, r |-> [r EXCEPT !._cachedFilters = <<tests>>]]

\* reFilter() on r
reFilterOf(r) == [r EXCEPT !._cachedFilters = <<>>]

\* the decorator filtered around a generator that yields <recs>
filteredRecords(r, recs) ==
    LET pf == processFiltersOf(r)
        pass(rec) == \E t \in pf.tests : testPasses(t, rec)
    IN  [r   |-> pf.r,
         out |-> IF pf.r.noFiltering THEN recs ELSE SelectSeq(recs, pass)]

\* the property records: the records of the resources, one resource after
\* the other, filtered
records(r) == filteredRecords(r, Concat(r.files))

\* __iter__: the records of self.records, filtered once more
iterate(r) ==
    LET inner == records(r)
    IN  filteredRecords(inner.r, inner.out)

FilterGroups ==
    {{[op |-> ">=", value |-> 1]}, {[op |-> "<=", value |-> 1]},
     {[op |-> ">=", value |-> 1], [op |-> "<=", value |-> 1]},
     {[op |-> ">=", value |-> 2]}}

InitIter ==
    /\ \E n \in 1..MaxIterFiles, filters \in {{}, {{[op |-> ">=", value |-> 1]}}} :
          \E files \in [1..n -> SeqsUpTo(0..MaxValue, MaxIterRecs)] :
              rs = [files |-> files, filters |-> filters,
                    _cachedFilters |-> <<>>, noFiltering |-> FALSE,
                    op |-> "init", out |-> <<>>, ops |-> MaxIterOps]
    /\ ctg = <<>>
    /\ ds = <<>>
    /\ call = NoCall
    /\ left = 0
    /\ ChunkIdle
    /\ HeapIdle
    /\ ReadIdle

\* list(r.records)
Records ==
    /\ rs.ops > 0
    /\ LET it == records(rs)
       IN  rs' = [it.r EXCEPT !.op = "records", !.out = it.out,
                              !.ops = @ - 1]
    /\ UNCHANGED <<ctg, dsVars, chunkVars, heapVars, readVars>>

\* list(r)
Iterate ==
    /\ rs.ops > 0
    /\ LET it == iterate(rs)
       IN  rs' = [it.r EXCEPT !.op = "iter", !.out = it.out, !.ops = @ - 1]
    /\ UNCHANGED <<ctg, dsVars, chunkVars, heapVars, readVars>>

\* r.addFilters(Filters holding group)
IterAddFilters(group) ==
    /\ rs.ops > 0
    /\ rs' = [reFilterOf([rs EXCEPT !.filters = @ \cup {group}])
                 EXCEPT !.op = "addFilters", !.ops = @ - 1]
    /\ UNCHANGED <<ctg, dsVars, chunkVars, heapVars, readVars>>

\* r.filters = value
IterSetFilters(value) ==
    /\ rs.ops > 0
    /\ rs' = [rs EXCEPT !.filters = value, !.op = "setFilters",
                        !.ops = @ - 1]
    /\ UNCHANGED <<ctg, dsVars, chunkVars, heapVars, readVars>>

\* r.disableFilters()
IterDisableFilters ==
    /\ rs.ops > 0
    /\ rs' = [reFilterOf(rs) EXCEPT !.noFiltering = TRUE,
                                    !._cachedFilters = <<{{}}>>,
                                    !.op = "disableFilters", !.ops = @ - 1]
    /\ UNCHANGED <<ctg, dsVars, chunkVars, heapVars, readVars>>

\* r.enableFilters()
IterEnableFilters ==
    /\ rs.ops > 0
    /\ rs' = [reFilterOf(rs) EXCEPT !.noFiltering = FALSE,
                                    !.op = "enableFilters", !.ops = @ - 1]
    /\ UNCHANGED <<ctg, dsVars, chunkVars, heapVars, readVars>>

NextIter ==
    \/ Records
    \/ Iterate
    \/ \E group \in FilterGroups : IterAddFilters(group)
    \/ \E value \in {{}} \cup {{g} : g \in FilterGroups} :
          IterSetFilters(value)
    \/ IterDisableFilters
    \/ IterEnableFilters

SpecIter == InitIter /\ [][NextIter]_vars

(***************************************************************************)
(* Opening the files of a set, asserting that it is indexed, and counting. *)
(* rs is the set: its class family, the state of each external file, its   *)
(* flags, its open readers, its cached index and its counts, with the last *)
(* call made on it, the exception that call raised ("" when it returned)   *)
(* and the strictness and readers it started from.  Every file that opens  *)
(* holds one record of length one.                                         *)
(***************************************************************************)
MaxOpenFiles == 2
MaxOpenOps == 3

\* the states an external file can be in: readable with its companion
\* index, absent, readable without companion index (.pbi / .fai), readable
\* but holding no record, readable but of a format whose index is not
\* available (UnavailableFeature)
FileKinds == {"ok", "missing", "noindex", "empty", "nofeature"}

\* Body applied to the value of an expression, the expression being
\* evaluated once
Bind(value, Body(_)) == CHOOSE x \in {Body(y) : y \in {value}} : TRUE

\* the position of the first file the loop of _openFiles raises on, or 0
FirstRaising(files, strict) ==
    LET raises(k) == files[k] = "missing" \/ (files[k] = "noindex" /\ strict)
    IN IF \E k \in DOMAIN files : raises(k)
       THEN CHOOSE k \in DOMAIN files :
                raises(k) /\ \A j \in 1..(k - 1) : ~raises(j)
       ELSE 0

\* ReadSet._openFiles: old readers are closed; each file is opened with
\* its index, a set that is not strict falling back to the plain reader
\* when the pbi is missing; empty files are left out; no reader at all is
\* an IOError.  The readers opened before a raise stay in _openReaders.
ReadSet_openFiles(r) ==
    LET stop == FirstRaising(r.files, r._strict)
        upto == IF stop = 0 THEN Len(r.files) ELSE stop - 1
        all == [k \in 1..upto |->
                   [file |-> k, indexed |-> r.files[k] # "noindex"]]
        kept(rd) == r.files[rd.file] # "empty"
        opened == SelectSeq(all, kept)
    IN [r |-> [r EXCEPT !._openReaders = opened],
        exc |-> IF stop # 0 \/ (opened = <<>> /\ Len(r.files) # 0)
                THEN "IOError" ELSE ""]

\* ContigSet._openFiles: the same loop without the emptiness test
ContigSet_openFiles(r) ==
    LET stop == FirstRaising(r.files, r._strict)
        upto == IF stop = 0 THEN Len(r.files) ELSE stop - 1
        opened == [k \in 1..upto |->
                      [file |-> k, indexed |-> r.files[k] # "noindex"]]
    IN [r |-> [r EXCEPT !._openReaders = opened],
        exc |-> IF stop # 0 \/ (opened = <<>> /\ Len(r.files) # 0)
                THEN "IOError" ELSE ""]

\* ReadSet.resourceReaders: the files are opened when no reader is open
ReadSet_resourceReaders(r) ==
    IF r._openReaders = <<>> THEN ReadSet_openFiles(r)
    ELSE [r |-> r, exc |-> ""]

\* DataSet._assertIndexed, as ReadSet.assertIndexed calls it: with no open
\* reader the files are opened strictly and the strictness is put back,
\* whether _openFiles returns or raises; with open readers each must be an
\* indexed one
ReadSet_assertIndexed(r) ==
    IF r._openReaders = <<>>
    THEN Bind(ReadSet_openFiles([r EXCEPT !._strict = TRUE]),
              LAMBDA o : [r |-> [o.r EXCEPT !._strict = r._strict],
                          exc |-> o.exc])
    ELSE [r |-> r,
          exc |-> IF \E k \in DOMAIN r._openReaders :
                         ~r._openReaders[k].indexed
                  THEN "IOError" ELSE ""]

\* ContigSet.isIndexed: resourceReaders reopens the files, every reader is
\* asked whether it is an IndexedFastaReader, and answers that differ are
\* a ResourceMismatchError, turned into False by a set that is not strict
ContigSet_isIndexed(r) ==
    Bind(ContigSet_openFiles(r), LAMBDA o :
      IF o.exc # "" THEN [r |-> o.r, exc |-> o.exc, value |-> FALSE]
      ELSE IF \E k \in DOMAIN o.r._openReaders :
                  o.r._openReaders[k].indexed # o.r._openReaders[1].indexed
      THEN [r |-> o.r,
            exc |-> IF r._strict THEN "ResourceMismatchError" ELSE "",
            value |-> FALSE]
      ELSE [r |-> o.r, exc |-> "", value |-> o.r._openReaders[1].indexed])

\* ContigSet.assertIndexed: a set that is not indexed is made strict and
\* its files are opened again
ContigSet_assertIndexed(r) ==
    Bind(ContigSet_isIndexed(r), LAMBDA i :
      IF i.exc # "" THEN [r |-> i.r, exc |-> i.exc]
      ELSE IF ~i.value
      THEN ContigSet_openFiles([i.r EXCEPT !._strict = TRUE])
      ELSE [r |-> i.r, exc |-> ""])

\* assertIndexed of the class of r
assertIndexedOf(r) ==
    IF r.cls = "ContigSet" THEN ContigSet_assertIndexed(r)
    ELSE ReadSet_assertIndexed(r)

\* DataSet.index: the cached index, or assertIndexed followed by
\* _indexRecords over the resource readers; the index is kept as its length
DataSet_index(r) ==
    IF r._index # <<>> THEN [r |-> r, exc |-> ""]
    ELSE Bind(assertIndexedOf(r), LAMBDA a :
           IF a.exc # "" THEN a
           ELSE Bind(IF r.cls = "ContigSet" THEN ContigSet_openFiles(a.r)
                     ELSE ReadSet_resourceReaders(a.r), LAMBDA o :
             IF o.exc # "" THEN o
             ELSE IF \E k \in DOMAIN o.r._openReaders :
                         o.r.files[o.r._openReaders[k].file] = "nofeature"
             THEN [r |-> o.r, exc |-> "UnavailableFeature"]
             ELSE [r |-> [o.r EXCEPT !._index = <<Len(o.r._openReaders)>>],
                   exc |-> ""]))

\* ReadSet.updateCounts: nothing is opened under skipCounts; otherwise the
\* set is asserted indexed and counted through its index, and an IOError
\* or an UnavailableFeature is swallowed by a set that is not strict
ReadSet_updateCounts(r) ==
    IF r._skipCounts
    THEN [r |-> [r EXCEPT !.numRecords = UnknownCount,
                          !.totalLength = UnknownCount], exc |-> ""]
    ELSE Bind(ReadSet_assertIndexed(r), LAMBDA a :
           Bind(IF a.exc # "" THEN a ELSE DataSet_index(a.r), LAMBDA f :
             IF f.exc = ""
             THEN [r |-> [f.r EXCEPT !.numRecords = f.r._index[1],
                                     !.totalLength = f.r._index[1]],
                   exc |-> ""]
             ELSE IF f.exc \in {"IOError", "UnavailableFeature"}
                     /\ ~r._strict
             THEN [r |-> [f.r EXCEPT !.numRecords = UnknownCount,
                                     !.totalLength = UnknownCount],
                   exc |-> ""]
             ELSE f))

\* the record of a call on rs
Called(name, res) ==
    [res.r EXCEPT !.op = name, !.exc = res.exc,
                  !.pre = [strict |-> rs._strict, readers |-> rs._openReaders],
                  !.ops = rs.ops - 1]

InitOpen ==
    /\ \E cls \in {"ReadSet", "ContigSet"}, n \in 1..MaxOpenFiles,
          strict \in BOOLEAN, skipCounts \in BOOLEAN :
         \E files \in [1..n -> FileKinds] :
            rs = [cls |-> cls, files |-> files, _strict |-> strict,
                  _skipCounts |-> skipCounts, _openReaders |-> <<>>,
                  _index |-> <<>>, numRecords |-> 0, totalLength |-> 0,
                  op |-> "init", exc |-> "",
                  pre |-> [strict |-> strict, readers |-> <<>>],
                  ops |-> MaxOpenOps]
    /\ ctg = <<>>
    /\ ds = <<>>
    /\ call = NoCall
    /\ left = 0
    /\ ChunkIdle
    /\ HeapIdle
    /\ ReadIdle

\* dset.updateCounts() on a ReadSet
UpdateCounts ==
    /\ rs.ops > 0
    /\ rs.cls = "ReadSet"
    /\ \E res \in {ReadSet_updateCounts(rs)} :
          rs' = Called("updateCounts", res)
    /\ UNCHANGED <<ctg, dsVars, chunkVars, heapVars, readVars>>

\* dset.assertIndexed()
AssertIndexed ==
    /\ rs.ops > 0
    /\ \E res \in {assertIndexedOf(rs)} :
          rs' = Called("assertIndexed", res)
    /\ UNCHANGED <<ctg, dsVars, chunkVars, heapVars, readVars>>

\* dset.index
IndexAccess ==
    /\ rs.ops > 0
    /\ \E res \in {DataSet_index(rs)} : rs' = Called("index", res)
    /\ UNCHANGED <<ctg, dsVars, chunkVars, heapVars, readVars>>

\* dset.resourceReaders()
ResourceReaders ==
    /\ rs.ops > 0
    /\ \E res \in {IF rs.cls = "ContigSet" THEN ContigSet_openFiles(rs)
                     ELSE ReadSet_resourceReaders(rs)} :
          rs' = Called("resourceReaders", res)
    /\ UNCHANGED <<ctg, dsVars, chunkVars, heapVars, readVars>>

\* dset.close()
CloseReaders ==
    /\ rs.ops > 0
    /\ rs' = Called("close",
                    [r |-> [rs EXCEPT !._openReaders = <<>>], exc |-> ""])
    /\ UNCHANGED <<ctg, dsVars, chunkVars, heapVars, readVars>>

NextOpen ==
    \/ UpdateCounts
    \/ AssertIndexed
    \/ IndexAccess
    \/ ResourceReaders
    \/ CloseReaders

SpecOpen == InitOpen /\ [][NextOpen]_vars

(***************************************************************************)
(* The index of a ReadSet and its index map. rs is the ReadSet: the rows   *)
(* of the companion index of each of its readers (a row is the number the  *)
(* filters test), its filters, its cached index and index map (<<>> when   *)
(* None, else <<the sequence>>), and the last call made on it. Readers and *)
(* rows are numbered from 1; the argument of dataset[i] is numbered as in  *)
(* the code, from 0.                                                       *)
(***************************************************************************)
MaxMapFiles == 2
MaxMapRows == 2
MaxMapOps == 3

\* the rows of one reader that go into the index: all of them without
\* filters or with filtering disabled, else those filterIndexRecords passes
rowsKept(r, rrNum) ==
    LET tbl == r.files[rrNum]
        passes(i) == \E t \in r.filters : testPasses(t, tbl[i])
        keep(i) == r.filters = {} \/ r.noFiltering \/ passes(i)
    IN SelectSeq([i \in 1..Len(tbl) |-> i], keep)

\* ReadSet._indexRecords: the index map of the readers taken in order, and
\* the stacked rows
ReadSet_indexRecords(r) ==
    LET perReader == [rrNum \in 1..Len(r.files) |->
                        [k \in 1..Len(rowsKept(r, rrNum)) |->
                            [rr |-> rrNum, row |-> rowsKept(r, rrNum)[k]]]]
        indexMap == Concat(perReader)
    IN [r EXCEPT !._indexMap = <<indexMap>>,
                 !._index = <<[n \in 1..Len(indexMap) |->
                                 r.files[indexMap[n].rr][indexMap[n].row]]>>]

\* DataSet.index: the cached index, built when it is None
populateIndex(r) == IF r._index = <<>> THEN ReadSet_indexRecords(r) ELSE r

\* DataSet.__getitem__ with an int: the index is read when the map is
\* None, a negative position is counted from the end of the index, and the
\* record is read from the reader the map names
DataSet_getitem(r, i) ==
    Bind(IF r._indexMap = <<>> THEN populateIndex(r) ELSE r, LAMBDA r1 :
      Bind(IF i < 0 THEN populateIndex(r1) ELSE r1, LAMBDA r2 :
        LET size == Len(r2._indexMap[1])
            j == IF i < 0 THEN Len(r2._index[1]) + i ELSE i
            at == IF j < 0 THEN size + j ELSE j
        IN IF at < 0 \/ at >= size
           THEN [r |-> r2, exc |-> "IndexError", out |-> <<>>]
           ELSE [r |-> r2, exc |-> "",
                 out |-> <<r2.files[r2._indexMap[1][at + 1].rr]
                                   [r2._indexMap[1][at + 1].row]>>]))

\* reFilter() on the ReadSet: index and index map are forgotten
reFilterIndexMap(r) == [r EXCEPT !._index = <<>>, !._indexMap = <<>>]

InitMap ==
    /\ \E n \in 1..MaxMapFiles, filters \in {{}, {{[op |-> ">=", value |-> 1]}}} :
          \E files \in [1..n -> SeqsUpTo(0..MaxValue, MaxMapRows)] :
              rs = [files |-> files, filters |-> filters,
                    noFiltering |-> FALSE, _index |-> <<>>,
                    _indexMap |-> <<>>, op |-> "init", arg |-> 0,
                    exc |-> "", out |-> <<>>, ops |-> MaxMapOps]
    /\ ctg = <<>>
    /\ ds = <<>>
    /\ call = NoCall
    /\ left = 0
    /\ ChunkIdle
    /\ HeapIdle
    /\ ReadIdle

\* dset.index
MapIndex ==
    /\ rs.ops > 0
    /\ rs' = [populateIndex(rs) EXCEPT !.op = "index", !.exc = "",
                                       !.ops = @ - 1]
    /\ UNCHANGED <<ctg, dsVars, chunkVars, heapVars, readVars>>

\* dset[i]
GetItem(i) ==
    /\ rs.ops > 0
    /\ \E res \in {DataSet_getitem(rs, i)} :
          rs' = [res.r EXCEPT !.op = "getitem", !.arg = i, !.exc = res.exc,
                              !.out = res.out, !.ops = @ - 1]
    /\ UNCHANGED <<ctg, dsVars, chunkVars, heapVars, readVars>>

\* dset.addFilters(Filters holding group)
MapAddFilters(group) ==
    /\ rs.ops > 0
    /\ rs' = [reFilterIndexMap([rs EXCEPT !.filters = @ \cup {group}])
                 EXCEPT !.op = "addFilters", !.ops = @ - 1]
    /\ UNCHANGED <<ctg, dsVars, chunkVars, heapVars, readVars>>

\* dset.filters = value
MapSetFilters(value) ==
    /\ rs.ops > 0
    /\ rs' = [rs EXCEPT !.filters = value, !.op = "setFilters",
                        !.ops = @ - 1]
    /\ UNCHANGED <<ctg, dsVars, chunkVars, heapVars, readVars>>

\* dset.disableFilters()
MapDisableFilters ==
    /\ rs.ops > 0
    /\ rs' = [reFilterIndexMap(rs) EXCEPT !.noFiltering = TRUE,
                                          !.op = "disableFilters",
                                          !.ops = @ - 1]
    /\ UNCHANGED <<ctg, dsVars, chunkVars, heapVars, readVars>>

\* dset.enableFilters()
MapEnableFilters ==
    /\ rs.ops > 0
    /\ rs' = [reFilterIndexMap(rs) EXCEPT !.noFiltering = FALSE,
                                          !.op = "enableFilters",
                                          !.ops = @ - 1]
    /\ UNCHANGED <<ctg, dsVars, chunkVars, heapVars, readVars>>

NextMapNoAssignment ==
    \/ MapIndex
    \/ \E i \in (0 - MaxMapFiles * MaxMapRows)..(MaxMapFiles * MaxMapRows - 1) :
          GetItem(i)
    \/ \E group \in FilterGroups : MapAddFilters(group)
    \/ MapDisableFilters
    \/ MapEnableFilters

NextMap ==
    \/ NextMapNoAssignment
    \/ \E value \in {{}} \cup {{g} : g \in FilterGroups} :
          MapSetFilters(value)

SpecMap == InitMap /\ [][NextMap]_vars

\* the ReadSet under every call but the assignment of its filters
SpecMapNoAssignment == InitMap /\ [][NextMapNoAssignment]_vars

(***************************************************************************)
(* _getRecords. rs is the generator: the number of rows of each reader,    *)
(* the index list and buffer size it was called with, its buffers, its     *)
(* position in the index list and the records it has yielded. A record is  *)
(* named by the reader and the row it was read from; readers and rows are  *)
(* numbered from 1.                                                        *)
(***************************************************************************)
MaxGetReaders == 2
MaxGetRows == 2
MaxIndexList == 3
MaxBuffsize == 3

\* rr.atRowNumber(row) of the generator's readers
getRow(rrNum, row) == [reader |-> rrNum, row |-> row]

\* cleanBuffs(): an empty request list per reader, nothing to consume
cleanBuffs(nReaders) ==
    [reqCache |-> [rrNum \in 1..nReaders |-> <<>>], fromCache |-> <<>>,
     cacheFill |-> 0]

\* debuf() consuming the cache of each reader in turn and not in the order
\* of fromCache
debufByReader(reqCache, fromCache, cacheFill) ==
    Concat([rrNum \in DOMAIN reqCache |->
               [n \in DOMAIN reqCache[rrNum] |->
                   getRow(rrNum, reqCache[rrNum][n])]])

\* debuf(): the record cache of each reader is filled from its requests in
\* order, then emptied in the order of fromCache, reqCacheI counting how
\* many records of each reader have been taken
debuf(reqCache, fromCache, cacheFill) ==
    LET recCache == [rrNum \in DOMAIN reqCache |->
                        [n \in DOMAIN reqCache[rrNum] |->
                            getRow(rrNum, reqCache[rrNum][n])]]
        reqCacheI(i) == Cardinality({j \in 1..(i - 1) :
                                        fromCache[j] = fromCache[i]})
    IN [i \in 1..cacheFill |-> recCache[fromCache[i]][reqCacheI(i) + 1]]

InitGet ==
    /\ \E nReaders \in 1..MaxGetReaders, buffsize \in 1..MaxBuffsize :
          \E indexList \in SeqsUpTo((1..nReaders) \X (1..MaxGetRows),
                                    MaxIndexList) :
              rs = [nReaders |-> nReaders, indexList |-> indexList,
                    buffsize |-> buffsize,
                    reqCache |-> cleanBuffs(nReaders).reqCache,
                    fromCache |-> <<>>, cacheFill |-> 0,
                    pos |-> 0, out |-> <<>>, pc |-> "loop"]
    /\ ctg = <<>>
    /\ ds = <<>>
    /\ call = NoCall
    /\ left = 0
    /\ ChunkIdle
    /\ HeapIdle
    /\ ReadIdle

\* buffsize == 1: the next record is read and yielded
GetOne ==
    /\ rs.pc = "loop"
    /\ rs.buffsize = 1
    /\ rs.pos < Len(rs.indexList)
    /\ LET indexTuple == rs.indexList[rs.pos + 1]
       IN rs' = [rs EXCEPT !.pos = @ + 1,
                           !.out = Append(@, getRow(indexTuple[1],
                                                    indexTuple[2]))]
    /\ UNCHANGED <<ctg, dsVars, chunkVars, heapVars, readVars>>

\* otherwise the next request is put in the buffers, and a full buffer is
\* yielded and cleaned
GetBuffered ==
    /\ rs.pc = "loop"
    /\ rs.buffsize # 1
    /\ rs.pos < Len(rs.indexList)
    /\ LET indexTuple == rs.indexList[rs.pos + 1]
           reqCache == [rs.reqCache EXCEPT
                           ![indexTuple[1]] = Append(@, indexTuple[2])]
           fromCache == Append(rs.fromCache, indexTuple[1])
           cacheFill == rs.cacheFill + 1
           clean == cleanBuffs(rs.nReaders)
       IN IF cacheFill >= rs.buffsize
          THEN rs' = [rs EXCEPT !.pos = @ + 1,
                                !.out = @ \o debuf(reqCache, fromCache,
                                                   cacheFill),
                                !.reqCache = clean.reqCache,
                                !.fromCache = clean.fromCache,
                                !.cacheFill = clean.cacheFill]
          ELSE rs' = [rs EXCEPT !.pos = @ + 1, !.reqCache = reqCache,
                                !.fromCache = fromCache,
                                !.cacheFill = cacheFill]
    /\ UNCHANGED <<ctg, dsVars, chunkVars, heapVars, readVars>>

\* the index list is exhausted: what is left in the buffers is yielded
GetRest ==
    /\ rs.pc = "loop"
    /\ rs.pos = Len(rs.indexList)
    /\ rs' = [rs EXCEPT !.pc = "done",
                        !.out = IF rs.buffsize # 1 /\ rs.cacheFill > 0
                                THEN @ \o debuf(rs.reqCache, rs.fromCache,
                                                rs.cacheFill)
                                ELSE @]
    /\ UNCHANGED <<ctg, dsVars, chunkVars, heapVars, readVars>>

NextGet ==
    \/ GetOne
    \/ GetBuffered
    \/ GetRest

SpecGet == InitGet /\ [][NextGet]_vars

(***************************************************************************)
(* _pbiReadsInRange, longest first. rs is the AlignmentSet and the query:  *)
(* its cached index (rows [tStart, tEnd] on the reference asked for, row n *)
(* standing for entry n of the index map), the window and sampleSize, and  *)
(* after the call the rows of the index map in the order they are handed   *)
(* to _getRecords.                                                         *)
(***************************************************************************)
MaxPos == 3
MaxIndexRows == 3
MaxSample == 1

\* the rows of the index that _indexReadsInRange passes
passesInRange(idx, start, end) ==
    SelectSeq([n \in 1..Len(idx) |-> n],
              LAMBDA n : idx[n].tStart < end /\ idx[n].tEnd > start)

\* self.index[passes]: indexing with a mask gives a new array
maskedCopy(idx, passes) == [k \in 1..Len(passes) |-> idx[passes[k]]]

\* lengthInWindow(hits): tEnd and tStart of hits are clipped in place, the
\* difference is returned
lengthInWindow(hits, start, end) ==
    LET ends == [k \in DOMAIN hits |->
                    IF hits[k].tEnd > end THEN end ELSE hits[k].tEnd]
        starts == [k \in DOMAIN hits |->
                      IF hits[k].tStart < start THEN start
                      ELSE hits[k].tStart]
    IN [hits |-> [k \in DOMAIN hits |->
                     [tStart |-> starts[k], tEnd |-> ends[k]]],
        lens |-> [k \in DOMAIN hits |-> ends[k] - starts[k]]]

\* lens.argsort(kind='mergesort'): the positions by increasing key, equal
\* keys in position order
RECURSIVE argsortFrom(_, _)
argsortFrom(keys, todo) ==
    IF todo = {} THEN <<>>
    ELSE LET least == MinOfSet({keys[k] : k \in todo})
             first == MinOfSet({k \in todo : keys[k] = least})
         IN <<first>> \o argsortFrom(keys, todo \ {first})

\* an argsort by increasing key that takes equal keys last position first
RECURSIVE argsortFromLast(_, _)
argsortFromLast(keys, todo) ==
    IF todo = {} THEN <<>>
    ELSE LET least == MinOfSet({keys[k] : k \in todo})
             first == MaxOfSet({k \in todo : keys[k] = least})
         IN <<first>> \o argsortFromLast(keys, todo \ {first})

argsortTiesReversed(keys) == argsortFromLast(keys, DOMAIN keys)

argsortMergesort(keys) == argsortFrom(keys, DOMAIN keys)

\* lens.argsort(): the orders by increasing key, equal keys in any order
argsortOrders(keys) ==
    {p \in [DOMAIN keys -> DOMAIN keys] :
        /\ \A i, j \in DOMAIN keys : i # j => p[i] # p[j]
        /\ \A i, j \in DOMAIN keys : i < j => keys[p[i]] <= keys[p[j]]}

\* the keys sorted on: the window length less the length in the window
longestKeys(idx, start, end) ==
    LET lens == lengthInWindow(maskedCopy(idx,
                                          passesInRange(idx, start, end)),
                               start, end).lens
    IN [k \in DOMAIN lens |-> (end - start) - lens[k]]

\* count_min > sampleSize: more rows of the least key than are sampled
sampledOrder(keys, sampleSize) ==
    /\ sampleSize # 0
    /\ keys # <<>>
    /\ Cardinality({k \in DOMAIN keys :
                       keys[k] = MinOfSet({keys[j] : j \in DOMAIN keys})})
          > sampleSize

\* the index after lengthInWindow has run on a copy of its rows
indexAfterCopy(idx, passes, hits) == idx

\* the index had lengthInWindow run on a view of its rows
indexAfterView(idx, passes, hits) ==
    [n \in DOMAIN idx |->
        IF \E k \in DOMAIN passes : passes[k] = n
        THEN hits[CHOOSE k \in DOMAIN passes : passes[k] = n]
        ELSE idx[n]]

Intervals ==
    {iv \in [tStart : 0..MaxPos, tEnd : 0..MaxPos] : iv.tStart < iv.tEnd}

InitLongest ==
    /\ \E idx \in SeqsUpTo(Intervals, MaxIndexRows), window \in Intervals,
          sampleSize \in 0..MaxSample :
            rs = [index |-> idx, start |-> window.tStart,
                  end |-> window.tEnd, sampleSize |-> sampleSize,
                  pre |-> idx, pc |-> "call", out |-> <<>>]
    /\ ctg = <<>>
    /\ ds = <<>>
    /\ call = NoCall
    /\ left = 0
    /\ ChunkIdle
    /\ HeapIdle
    /\ ReadIdle

\* _pbiReadsInRange(refName, start, end, longest=True, sampleSize) where
\* the sort is the stable one
LongestFirst ==
    /\ rs.pc = "call"
    /\ \E passes \in {passesInRange(rs.index, rs.start, rs.end)} :
       \E keys \in {longestKeys(rs.index, rs.start, rs.end)} :
          /\ ~sampledOrder(keys, rs.sampleSize)
          /\ \E order \in {argsortMergesort(keys)} :
                rs' = [rs EXCEPT
                         !.index = indexAfterCopy(rs.index, passes,
                             lengthInWindow(maskedCopy(rs.index, passes),
                                            rs.start, rs.end).hits),
                         !.out = [k \in DOMAIN order |-> passes[order[k]]],
                         !.pc = "done"]
    /\ UNCHANGED <<ctg, dsVars, chunkVars, heapVars, readVars>>

\* the same call where the sort is the default one
LongestFirstSampled ==
    /\ rs.pc = "call"
    /\ \E passes \in {passesInRange(rs.index, rs.start, rs.end)} :
       \E keys \in {longestKeys(rs.index, rs.start, rs.end)} :
          /\ sampledOrder(keys, rs.sampleSize)
          /\ \E order \in argsortOrders(keys) :
                rs' = [rs EXCEPT
                         !.index = indexAfterCopy(rs.index, passes,
                             lengthInWindow(maskedCopy(rs.index, passes),
                                            rs.start, rs.end).hits),
                         !.out = [k \in DOMAIN order |-> passes[order[k]]],
                         !.pc = "done"]
    /\ UNCHANGED <<ctg, dsVars, chunkVars, heapVars, readVars>>

NextLongest ==
    \/ LongestFirst
    \/ LongestFirstSampled

SpecLongest == InitLongest /\ [][NextLongest]_vars

(***************************************************************************)
(* The coverage contour of a reference and its split. ctg is the call: the *)
(* length of the reference, the index records mapped to it (rows [tStart,  *)
(* tEnd]), the number of splits asked for, and what _intervalContour and   *)
(* _splitContour returned. Entry i + 1 of a contour is the entry the code  *)
(* numbers i; break positions are numbered as in the code, from 0.         *)
(***************************************************************************)
MaxRefLength == 4
MaxContourRecs == 2
MaxSplits == 3

\* a contour whose records cover their tEnd as well
_intervalContourInclusive(recs, refLength) ==
    [p \in 1..(refLength + 1) |->
        Cardinality({n \in DOMAIN recs :
                        recs[n].tStart <= p - 1 /\ p - 1 <= recs[n].tEnd})]

\* _intervalContour: one more at each tStart, one less at each tEnd, then
\* the running sum
_intervalContour(recs, refLength) ==
    LET delta(i) == Cardinality({n \in DOMAIN recs : recs[n].tStart = i})
                    - Cardinality({n \in DOMAIN recs : recs[n].tEnd = i})
    IN [p \in 1..(refLength + 1) |->
           SumSeq([q \in 1..p |-> delta(q - 1)])]

\* the while loop of _splitContour: the endpoint moves on and the contour
\* under it is added to size until size reaches splitSize or the endpoint
\* is the last position
RECURSIVE walkContour(_, _, _, _)
walkContour(contour, endpoint, size, splitSize) ==
    IF size < splitSize /\ endpoint < Len(contour) - 1
    THEN walkContour(contour, endpoint + 1,
                     size + contour[endpoint + 2], splitSize)
    ELSE endpoint

\* the for loop of _splitContour: a break is appended where the last one
\* is and walked on
RECURSIVE splitLoop(_, _, _, _)
splitLoop(contour, tbr, todo, splitSize) ==
    IF todo = 0 THEN tbr
    ELSE splitLoop(contour,
                   Append(tbr, walkContour(contour, tbr[Len(tbr)], 0,
                                           splitSize)),
                   todo - 1, splitSize)

\* _splitContour(contour, splits)
_splitContour(contour, splits) ==
    splitLoop(contour, <<0>>, splits - 1, SumSeq(contour) \div splits)

ContourIntervals(refLength) ==
    {iv \in [tStart : 0..refLength, tEnd : 0..refLength] :
        iv.tStart < iv.tEnd}

InitContour ==
    /\ \E refLength \in 1..MaxRefLength, splits \in 1..MaxSplits :
          \E recs \in SeqsUpTo(ContourIntervals(refLength), MaxContourRecs) :
              ctg = [refLength |-> refLength, recs |-> recs,
                     splits |-> splits, contour |-> <<>>, tbr |-> <<>>,
                     pc |-> "contour"]
    /\ rs = <<>>
    /\ ds = <<>>
    /\ call = NoCall
    /\ left = 0
    /\ ChunkIdle
    /\ HeapIdle
    /\ ReadIdle

\* contour = self._intervalContour(rname)
IntervalContour ==
    /\ ctg.pc = "contour"
    /\ ctg' = [ctg EXCEPT !.contour = _intervalContour(ctg.recs,
                                                       ctg.refLength),
                          !.pc = "split"]
    /\ UNCHANGED <<rs, dsVars, chunkVars, heapVars, readVars>>

\* splits = self._splitContour(contour, len(rAtoms))
SplitContour ==
    /\ ctg.pc = "split"
    /\ ctg' = [ctg EXCEPT !.tbr = _splitContour(ctg.contour, ctg.splits),
                          !.pc = "done"]
    /\ UNCHANGED <<rs, dsVars, chunkVars, heapVars, readVars>>

NextContour ==
    \/ IntervalContour
    \/ SplitContour

SpecContour == InitContour /\ [][NextContour]_vars

(***************************************************************************)
(* Reference windows of _split_contigs. ctg is the call: the lengths of    *)
(* the references (a reference is named by its number), which of them have *)
(* records, the arguments, the atoms as they are rewritten and the place   *)
(* the call has reached. A window is [rn, start, end].                     *)
(***************************************************************************)
MaxContigs == 3
MaxContigLength == 5

\* the atoms _split_contigs starts from without byRecords: with 2 to 99
\* references those that have records, else all of them
contigAtoms(refLens, hasRecs) ==
    SelectSeq([rn \in DOMAIN refLens |->
                  [rn |-> rn, start |-> 0, end |-> refLens[rn]]],
              LAMBDA atom : \/ ~(Len(refLens) < 100 /\ Len(refLens) > 1)
                            \/ hasRecs[atom.rn])

\* a target one longer than dataSize/chunks
breakTargetLonger(refLens, nchunks) == (SumSeq(refLens) \div nchunks) + 1

\* target = dataSize/chunks
breakTarget(refLens, nchunks) == SumSeq(refLens) \div nchunks

InitBreak ==
    /\ \E n \in 1..MaxContigs :
       \E refLens \in [1..n -> 1..MaxContigLength], hasRecs \in [1..n -> BOOLEAN] :
       \E nchunks \in 0..Len(contigAtoms(refLens, hasRecs)) :
          /\ contigAtoms(refLens, hasRecs) # <<>>
          /\ ctg = [refLens |-> refLens, hasRecs |-> hasRecs,
                    chunks |-> IF nchunks = 0
                               THEN Len(contigAtoms(refLens, hasRecs))
                               ELSE nchunks,
                    target |-> 0,
                    atoms |-> contigAtoms(refLens, hasRecs),
                    i |-> 0, testAtom |-> <<>>, newAtoms |-> <<>>,
                    pc |-> "start"]
    /\ rs = <<>>
    /\ ds = <<>>
    /\ call = NoCall
    /\ left = 0
    /\ ChunkIdle
    /\ HeapIdle
    /\ ReadIdle

\* breakContigs and not byRecords, chunks <= len(atoms): the target is
\* computed and the loop over the atoms entered
BreakStart ==
    /\ ctg.pc = "start"
    /\ ctg' = [ctg EXCEPT !.target = breakTarget(ctg.refLens, ctg.chunks),
                          !.i = 1, !.testAtom = <<ctg.atoms[1]>>,
                          !.pc = "while"]
    /\ UNCHANGED <<rs, dsVars, chunkVars, heapVars, readVars>>

\* the body of the while loop: a window of the target length is cut off
\* the front of testAtom
BreakCut ==
    /\ ctg.pc = "while"
    /\ ctg.testAtom[1].end - ctg.testAtom[1].start > ctg.target
    /\ LET testAtom == ctg.testAtom[1]
           newAtom1 == [testAtom EXCEPT !.end = testAtom.start + ctg.target]
           newAtom2 == [testAtom EXCEPT !.start = testAtom.start + ctg.target]
       IN ctg' = [ctg EXCEPT !.newAtoms = Append(@, newAtom1),
                             !.testAtom = <<newAtom2>>]
    /\ UNCHANGED <<rs, dsVars, chunkVars, heapVars, readVars>>

\* the while loop is left: testAtom is kept and the next atom is taken, or
\* the for loop ends and atoms is newAtoms
BreakKeep ==
    /\ ctg.pc = "while"
    /\ ~(ctg.testAtom[1].end - ctg.testAtom[1].start > ctg.target)
    /\ IF ctg.i < Len(ctg.atoms)
       THEN ctg' = [ctg EXCEPT !.newAtoms = Append(@, ctg.testAtom[1]),
                               !.i = @ + 1,
                               !.testAtom = <<ctg.atoms[ctg.i + 1]>>]
       ELSE ctg' = [ctg EXCEPT !.newAtoms = Append(@, ctg.testAtom[1]),
                               !.atoms = Append(ctg.newAtoms,
                                                ctg.testAtom[1]),
                               !.testAtom = <<>>,
                               !.pc = "done"]
    /\ UNCHANGED <<rs, dsVars, chunkVars, heapVars, readVars>>

NextBreak ==
    \/ BreakStart
    \/ BreakCut
    \/ BreakKeep

SpecBreak == InitBreak /\ [][NextBreak]_vars

\* the call is not suspended: a step that can be taken is taken
SpecBreakFair == SpecBreak /\ WF_vars(NextBreak)

(***************************************************************************)
(* _split_contigs with more chunks than contigs. ctg is the call: the      *)
(* lengths of the references and the index records mapped to each (rows    *)
(* [tStart, tEnd]), the arguments, the atoms [rn, size, segments] with the *)
(* increment _split_atoms made last, the windows made from them, the       *)
(* chunks _chunkList put them in and the number of DataSets returned.      *)
(***************************************************************************)
MaxSplitContigs == 2
MaxSplitLength == 3
MaxSplitRecs == 2
MaxSplitChunks == 4

\* the atoms [rn, size, 1] _split_atoms is given: with 2 to 99 references
\* those that have records, else all; the size is the number of records
\* under byRecords and the length of the reference otherwise
segmentAtoms(refLens, recs, byRecords) ==
    SelectSeq([rn \in DOMAIN refLens |->
                  [rn |-> rn,
                   size |-> IF byRecords THEN Len(recs[rn]) ELSE refLens[rn],
                   segments |-> 1]],
              LAMBDA atom : \/ ~(Len(refLens) < 100 /\ Len(refLens) > 1)
                            \/ recs[atom.rn] # <<>>)

\* max(atoms, key=lambda x: x[1]/x[2]): the first atom whose quotient,
\* an integer division, is the largest
largestAtom(atoms) ==
    LET key(k) == atoms[k].size \div atoms[k].segments
    IN MinOfSet({k \in DOMAIN atoms : \A j \in DOMAIN atoms : key(j) <= key(k)})

\* the windows of one atom: segments windows of segment_size, the last one
\* stretched to the end of the reference
atomWindows(atom, refLens, byRecords) ==
    LET segment_size == IF byRecords
                        THEN refLens[atom.rn] \div atom.segments
                        ELSE atom.size \div atom.segments
    IN [i \in 1..atom.segments |->
           [rn |-> atom.rn, start |-> segment_size * (i - 1),
            end |-> IF i = atom.segments THEN refLens[atom.rn]
                    ELSE segment_size * i]]

\* _shiftAtoms for the windows of one reference: more than one window is
\* replaced by the windows between the breaks of the coverage contour
shiftReference(rAtoms, rn, refLens, recs) ==
    IF Len(rAtoms) > 1
    THEN Bind(_splitContour(_intervalContour(recs[rn], refLens[rn]),
                            Len(rAtoms)),
              LAMBDA splits :
                [k \in 1..Len(splits) |->
                    [rn |-> rn, start |-> splits[k],
                     end |-> IF k = Len(splits) THEN refLens[rn]
                             ELSE splits[k + 1]]])
    ELSE rAtoms

\* _shiftAtoms: the windows grouped by reference, each group reshaped
_shiftAtoms(atoms, refLens, recs) ==
    Concat([rn \in DOMAIN refLens |->
               LET rAtoms == SelectSeq(atoms, LAMBDA atom : atom.rn = rn)
               IN IF rAtoms = <<>> THEN <<>>
                  ELSE shiftReference(rAtoms, rn, refLens, recs)])

\* balanceKey of a window: its length, or under byRecords
\* countRecords(rn, start, end)
windowKey(atom, recs, byRecords) ==
    IF byRecords
    THEN Cardinality({n \in DOMAIN recs[atom.rn] :
                         /\ recs[atom.rn][n].tStart < atom.end
                         /\ recs[atom.rn][n].tEnd > atom.start})
    ELSE atom.end - atom.start

InitAtoms ==
    /\ \E n \in 1..MaxSplitContigs, byRecords \in BOOLEAN :
       \E refLens \in [1..n -> 1..MaxSplitLength] :
       \E recs \in [1..n -> SeqsUpTo(ContourIntervals(MaxSplitLength),
                                     MaxSplitRecs)] :
       \E nchunks \in 1..MaxSplitChunks :
          /\ \A rn \in 1..n : \A k \in DOMAIN recs[rn] :
                recs[rn][k].tEnd <= refLens[rn]
          /\ segmentAtoms(refLens, recs, byRecords) # <<>>
          /\ nchunks > Len(segmentAtoms(refLens, recs, byRecords))
          /\ ctg = [refLens |-> refLens, recs |-> recs,
                    byRecords |-> byRecords, chunks |-> nchunks,
                    atoms |-> segmentAtoms(refLens, recs, byRecords),
                    todo |-> nchunks
                             - Len(segmentAtoms(refLens, recs, byRecords)),
                    last |-> <<>>, windows |-> <<>>, chunked |-> <<>>,
                    results |-> 0, pc |-> "atoms"]
    /\ rs = <<>>
    /\ ds = <<>>
    /\ call = NoCall
    /\ left = 0
    /\ ChunkIdle
    /\ HeapIdle
    /\ ReadIdle

\* one turn of the loop of _split_atoms: the largest atom gets one more
\* segment
SplitAtomsStep ==
    /\ ctg.pc = "atoms"
    /\ ctg.todo > 0
    /\ \E largest \in {largestAtom(ctg.atoms)} :
          ctg' = [ctg EXCEPT !.atoms[largest].segments = @ + 1,
                             !.todo = @ - 1,
                             !.last = <<[atoms |-> ctg.atoms,
                                         largest |-> largest]>>]
    /\ UNCHANGED <<rs, dsVars, chunkVars, heapVars, readVars>>

\* the atoms are converted back to windows and the copies are made
AtomsToWindows ==
    /\ ctg.pc = "atoms"
    /\ ctg.todo = 0
    /\ ctg' = [ctg EXCEPT
                 !.windows = Concat([k \in DOMAIN ctg.atoms |->
                                 atomWindows(ctg.atoms[k], ctg.refLens,
                                             ctg.byRecords)]),
                 !.results = ctg.chunks,
                 !.pc = IF ctg.byRecords THEN "shift" ELSE "chunk"]
    /\ UNCHANGED <<rs, dsVars, chunkVars, heapVars, readVars>>

\* byRecords: atoms = self._shiftAtoms(atoms)
ShiftAtoms ==
    /\ ctg.pc = "shift"
    /\ ctg' = [ctg EXCEPT !.windows = _shiftAtoms(ctg.windows, ctg.refLens,
                                                  ctg.recs),
                          !.pc = "chunk"]
    /\ UNCHANGED <<rs, dsVars, chunkVars, heapVars, readVars>>

\* chunks = self._chunkList(atoms, chunks, balanceKey)
ChunkWindows ==
    /\ ctg.pc = "chunk"
    /\ ctg' = [ctg EXCEPT
                 !.chunked = _chunkList([k \in DOMAIN ctg.windows |->
                                 windowKey(ctg.windows[k], ctg.recs,
                                           ctg.byRecords)], ctg.chunks),
                 !.pc = "done"]
    /\ UNCHANGED <<rs, dsVars, chunkVars, heapVars, readVars>>

NextAtoms ==
    \/ SplitAtomsStep
    \/ AtomsToWindows
    \/ ShiftAtoms
    \/ ChunkWindows

SpecAtoms == InitAtoms /\ [][NextAtoms]_vars

(***************************************************************************)
(* Properties.                                                             *)
(***************************************************************************)
Loads == {chunkSizes[k][1] : k \in 1..Len(chunkSizes)}
MaxOf(S) == CHOOSE x \in S : \A y \in S : y <= x
MinOf(S) == CHOOSE x \in S : \A y \in S : x <= y

\* the positions of chunk c, as a set of <<chunk, place>>
Placed(a) ==
    {p \in {<<c, k>> : c \in 1..Len(chunks), k \in 1..MaxAtoms + 1} :
        p[2] <= Len(chunks[p[1]]) /\ chunks[p[1]][p[2]] = a}

\* C1: for every atom list and every K with 1 <= K <= |A|, _chunkList
\* returns exactly K chunks, none of them empty, and every atom is in
\* exactly one chunk.
ChunkListPartitions ==
    (cpc = "done" /\ chunknum >= 1 /\ chunknum <= Len(inlist)) =>
        /\ Len(chunks) = chunknum
        /\ \A c \in 1..Len(chunks) : chunks[c] # <<>>
        /\ \A a \in 1..Len(inlist) : Cardinality(Placed(a)) = 1

\* C2: the atoms are taken in descending size order, each is put in a chunk
\* whose load was minimal at that moment (zero counting as one), and once
\* all are assigned the heaviest load exceeds the lightest by at most the
\* size of the largest atom.
ChunkListBalanced ==
    /\ cpc \in {"loop", "done"} =>
           \A k \in 1..Len(sortedItems) - 1 :
               inlist[sortedItems[k]] >= inlist[sortedItems[k + 1]]
    /\ (cpc \in {"loop", "done"} /\ pos > 0) =>
           \A k \in 2..Len(chunkSizes) :
               chunkSizes[1][1] - ChunkMass(inlist[sortedItems[pos]])
                   <= chunkSizes[k][1]
    /\ (cpc = "done" /\ inlist # <<>>) =>
           MaxOf(Loads) - MinOf(Loads) <= MaxOf(Range(inlist))

(***************************************************************************)
(* The call just made, and the DataSets it was made on.                    *)
(***************************************************************************)
Receiver == call.pre[call.self]
Other == call.pre[call.other]
ReceiverAfter == call.self1[1]
OtherAfter == call.other1[1]
Returned == call.out

\* the resources of the DataSets of <out> holding resource r
Holders(out, r) ==
    {p \in {<<c, k>> : c \in 1..Len(out), k \in 1..Len(Receiver.res)} :
        p[2] <= Len(out[p[1]].res) /\ out[p[1]].res[p[2]] = r}

SplitByResource ==
    /\ call.op = "split"
    /\ call.flag \/ Len(Receiver.subdatasets) <= 1
    /\ Len(Receiver.res) >= 1

SameSubdatasets(a, b) ==
    /\ Len(a.subdatasets) = Len(b.subdatasets)
    /\ \A k \in 1..Len(a.subdatasets) :
           DataSetEq(a.subdatasets[k], b.subdatasets[k])

\* C4 as stated: c = d.copy() has c.uuid != d.uuid and c == d.
CopyEqualButForUuid ==
    call.op = "copy" =>
        /\ Returned[1].uid # Receiver.uid
        /\ DataSetEq(Returned[1], Receiver)

\* C4 as amended: c = d.copy() has c.uuid != d.uuid and c == d is False,
\* the hash == compares covering the UniqueId; the external resources, the
\* filters and the subdatasets of c equal those of d.
CopyDistinctSameMembers ==
    call.op = "copy" =>
        /\ Returned[1].uid # Receiver.uid
        /\ ~DataSetEq(Returned[1], Receiver)
        /\ Returned[1].res = Receiver.res
        /\ Returned[1].filters = Receiver.filters
        /\ SameSubdatasets(Returned[1], Receiver)

\* a copy of a DataSet that has resources, filters and subdatasets
CopyWitness ==
    /\ call.op = "copy"
    /\ Receiver.res # <<>>
    /\ Receiver.filters # {}
    /\ Receiver.subdatasets # <<>>

\* the members C5 and C8 speak of
SameMembers(a, b) ==
    /\ a.filters = b.filters
    /\ a.uid = b.uid /\ a.name = b.name /\ a.version = b.version
    /\ a.numRecords = b.numRecords /\ a.totalLength = b.totalLength
    /\ a.res = b.res
    /\ a.subdatasets = b.subdatasets

\* C5: ds1 + ds2 leaves ds1 and ds2 as they were (filters, object metadata,
\* content metadata, external resources, subdatasets), whether the merge
\* succeeded, was blocked or raised.
AddLeavesOriginals ==
    (call.op = "merge" /\ call.flag) =>
        /\ SameMembers(ReceiverAfter, Receiver)
        /\ SameMembers(OtherAfter, Other)

FilterBlocked == call.outcome = "None"

\* C6 as stated: a merge is blocked by filters exactly when both DataSets
\* have an external resource and their Filters fail testCompatibility.
BlockedIffBothHaveResources ==
    (call.op = "merge" /\ mergeable(Receiver, Other)) =>
        (FilterBlocked <=>
            /\ Receiver.res # <<>>
            /\ Other.res # <<>>
            /\ ~testCompatibility(Receiver.filters, Other.filters))

\* C6 as amended: d.merge(other), the types allowing it, is blocked by
\* filters (returns None, raises nothing) exactly when d, the receiver, has
\* an external resource and the Filters fail testCompatibility, whether or
\* not other has resources; a merge into a d without resources is never
\* blocked by filters.
BlockedIffReceiverHasResources ==
    (call.op = "merge" /\ mergeable(Receiver, Other)) =>
        /\ FilterBlocked <=>
               /\ Receiver.res # <<>>
               /\ ~testCompatibility(Receiver.filters, Other.filters)
        /\ FilterBlocked => Returned = <<>>
        /\ Receiver.res = <<>> => ~FilterBlocked

\* a merge blocked although other has no resources, and a merge of
\* incompatible filters into an empty receiver that went through
BlockedWitness ==
    /\ call.op = "merge"
    /\ FilterBlocked
    /\ Other.res = <<>>

VersionChecked ==
    /\ call.op = "merge"
    /\ mergeable(Receiver, Other)
    /\ ~FilterBlocked
    /\ Receiver.version # NoVersion
    /\ Other.version # NoVersion

VersionRejected == call.outcome = "ValueError"

NoDuplicateIds(d) ==
    \A a, b \in 1..Len(d.res) :
        d.res[a].resourceId = d.res[b].resourceId => a = b

\* the DataSet the resources were added to
Grown == IF call.op = "merge" THEN Returned[1] ELSE ReceiverAfter

\* C9: after any sequence of merge and addExternalResources calls no two
\* external resources of a DataSet have the same resourceId, the first
\* added staying; merging d with a copy of itself yields as many external
\* resources as d has.
ResourcesDeduplicated ==
    /\ \A i \in 1..Len(ds) : NoDuplicateIds(ds[i])
    /\ \A k \in 1..Len(Returned) : NoDuplicateIds(Returned[k])
    /\ (call.op \in {"merge", "addExternalResources"}
            /\ call.outcome = "ok") =>
           SubSeq(Grown.res, 1, Len(Receiver.res)) = Receiver.res
    /\ (call.op = "merge" /\ call.outcome = "ok"
            /\ Other.res = Receiver.res) =>
           Len(Returned[1].res) = Len(Receiver.res)

\* a DataSet merged with a copy of itself, and resources added whose ids
\* were there already
MergeWithCopyWitness ==
    /\ call.op = "merge"
    /\ call.outcome = "ok"
    /\ call.self # call.other
    /\ Receiver.res # <<>>
    /\ Other.res = Receiver.res
    /\ Other.uid # Receiver.uid

\* a and b of C10: two DataSets of one type with disjoint resources,
\* compatible filters and no subdatasets, and m = a + b
MergedDisjoint ==
    /\ call.op = "merge"
    /\ call.flag
    /\ call.outcome = "ok"
    /\ call.self # call.other
    /\ Receiver.cls = Other.cls
    /\ Range(resourceIds(Receiver.res)) \cap Range(resourceIds(Other.res))
           = {}
    /\ testCompatibility(Receiver.filters, Other.filters)
    /\ Receiver.subdatasets = <<>>
    /\ Other.subdatasets = <<>>

MergeSplitRoundTrip ==
    LET m == Returned[1]
        parts == split(m, 2, FALSE)
    IN  /\ Len(m.res) = Len(Receiver.res) + Len(Other.res)
        /\ m.totalLength = Receiver.totalLength + Other.totalLength
        /\ Len(parts) = 2
        /\ parts[1].res = Receiver.res
        /\ parts[1].totalLength = Receiver.totalLength
        /\ parts[2].res = Other.res
        /\ parts[2].totalLength = Other.totalLength

SubdatasetsNotNested ==
    \A i \in 1..Len(heap) :
        \A k \in 1..Len(heap[i].subs) : heap[heap[i].subs[k]].subs = <<>>

\* the types the class cls may be cast to: DataSet and the class itself for
\* a subtype, every dataset type for DataSet
LegalCasts(cls) == IF cls = "DataSet" THEN DataSetTypes ELSE {"DataSet", cls}

\* C12: d.copy(asType=X) succeeds only if X is in the castable-type set of
\* d's class; for any other X it raises TypeError and leaves d, and every
\* other DataSet, as it was.
CastOnlyToCastable ==
    call.op = "copyAs" =>
        /\ call.outcome = "ok" => call.arg[1] \in LegalCasts(Receiver.cls)
        /\ call.arg[1] \notin LegalCasts(Receiver.cls) =>
               /\ call.outcome = "TypeError"
               /\ Returned = <<>>
               /\ ReceiverAfter = Receiver
               /\ ds = call.pre

\* a cast of a subtype to another subtype that was refused
IllegalCastWitness ==
    /\ call.op = "copyAs"
    /\ Receiver.cls = "AlignmentSet"
    /\ call.arg[1] = "SubreadSet"
    /\ Receiver.res # <<>>
    /\ call.outcome = "TypeError"

\* C13: for a legal target type X, d.copy(asType=X) returns a DataSet of
\* type X with the external resources, the filters, the content metadata
\* and the subdatasets of d, and a UniqueId different from d's.
CastIdenticalButForUuid ==
    (call.op = "copyAs" /\ call.arg[1] \in LegalCasts(Receiver.cls)) =>
        /\ call.outcome = "ok"
        /\ Returned[1].cls = call.arg[1]
        /\ Returned[1].res = Receiver.res
        /\ Returned[1].filters = Receiver.filters
        /\ Returned[1].numRecords = Receiver.numRecords
        /\ Returned[1].totalLength = Receiver.totalLength
        /\ SameSubdatasets(Returned[1], Receiver)
        /\ Returned[1].uid # Receiver.uid

FiltersChanged ==
    call.op \in {"addFilters", "setFilters", "mutateFilters",
                 "disableFilters", "enableFilters"}

\* C14: whenever the filters of a DataSet change (addFilters, assignment to
\* the filters attribute, a change in place through the filters property,
\* disableFilters, enableFilters) the compiled filters are reset to [] and
\* the index and index map to None in the same call.
FilterChangeResetsCaches ==
    FiltersChanged =>
        /\ ReceiverAfter.cachedFilters = "empty"
        /\ ~ReceiverAfter.indexed

\* the DataSet a call added resources to
Extended ==
    IF call.op = "merge" THEN Returned[1] ELSE ReceiverAfter

ResourcesChanged ==
    /\ call.op \in {"addExternalResources", "addExternalResourcesUpdate",
                    "merge"}
    /\ call.outcome = "ok"
    /\ Extended.res # Receiver.res

\* C15: whenever the external resources of a DataSet change
\* (addExternalResources, merge) its caches are invalidated in the same
\* call: no cached filter list is left, an index that is there lists the
\* records of the new resources, and counts recomputed in the call are
\* those of the new resources.
ResourceChangeResetsCaches ==
    ResourcesChanged =>
        /\ Extended.cachedFilters = "empty"
        /\ Extended.indexed => Extended.indexRes = Extended.res
        /\ call.op = "addExternalResourcesUpdate" =>
               /\ Extended.numRecords = numRecordsOf(Extended.res)
               /\ Extended.totalLength = totalLengthOf(Extended.res)

\* the resources or the filters of b are not those of a
OtherContent(a, b) == b.res # a.res \/ b.filters # a.filters

\* the UniqueId of d is the digest of d's present resources and filters,
\* and is not <old>
Regenerated(d, old) ==
    /\ d.uid # NoUuid
    /\ d.uid[1].res = d.res
    /\ d.uid[1].filters = d.filters
    /\ d.uid # old

\* C16: after a call that changes the external resources or the filters of
\* a DataSet (addExternalResources, addFilters, merge, and split for each
\* chunk returned) the UniqueId of that DataSet has been recomputed from
\* its new content: it differs from the UniqueId held before and from the
\* UniqueId of every DataSet with other resources or filters.
UniqueIdTracksContent ==
    /\ (call.op \in {"addExternalResources", "addExternalResourcesUpdate",
                     "addFilters"}
            /\ OtherContent(Receiver, ReceiverAfter)) =>
           /\ Regenerated(ReceiverAfter, Receiver.uid)
           /\ \A k \in 1..Len(ds) :
                  OtherContent(ds[k], ReceiverAfter) =>
                      ds[k].uid # ReceiverAfter.uid
    /\ (call.op = "merge" /\ call.outcome = "ok"
            /\ OtherContent(Receiver, Returned[1])) =>
           /\ Regenerated(Returned[1], Receiver.uid)
           /\ \A k \in 1..Len(ds) :
                  OtherContent(ds[k], Returned[1]) =>
                      ds[k].uid # Returned[1].uid
    /\ call.op = "split" =>
           \A c \in 1..Len(Returned) :
               OtherContent(Receiver, Returned[c]) =>
                   Regenerated(Returned[c], Receiver.uid)

SortedByStart(reads) ==
    \A i \in 1..Len(reads) - 1 : reads[i].tStart <= reads[i + 1].tStart

\* the reads of reader rr among the reads of <out>, in the order of <out>
YieldedOf(out, rr) == SelectSeq(out, LAMBDA r : r.rr = rr)

\* the read at the head of each iterator that is not exhausted once <out>
\* has been yielded
HeadsAfter(out) ==
    {mg.lists[k][Len(YieldedOf(out, k)) + 1] :
        k \in {j \in 1..Len(mg.lists) :
                  Len(YieldedOf(out, j)) < Len(mg.lists[j])}}

\* C18: the merge of the per-resource range iterators, for any number of
\* resources and any buffsize >= 1: every read of every iterator is
\* yielded exactly once, the reads of one resource keep their order, the
\* read yielded at each step has the smallest tStart among the heads of
\* the iterators not yet exhausted, and the iteration ends once every
\* iterator is exhausted.
MergeYieldsAllInOrder ==
    /\ \A k \in 1..Len(mg.lists) :
           /\ Len(YieldedOf(mg.out, k)) <= Len(mg.lists[k])
           /\ YieldedOf(mg.out, k)
                  = SubSeq(mg.lists[k], 1, Len(YieldedOf(mg.out, k)))
    /\ \A i \in 1..Len(mg.out) : mg.out[i].rr \in 1..Len(mg.lists)
    /\ mg.out # <<>> =>
           LET before == SubSeq(mg.out, 1, Len(mg.out) - 1)
               last == mg.out[Len(mg.out)]
           IN  /\ last \in HeadsAfter(before)
               /\ \A h \in HeadsAfter(before) : last.tStart <= h.tStart
    /\ mg.pc = "done" =>
           \A k \in 1..Len(mg.lists) : YieldedOf(mg.out, k) = mg.lists[k]
    /\ (mg.pc \in {"loop", "plain"} /\ HeadsAfter(mg.out) = {}) =>
           (mg.lanes = <<>> /\ mg.plain = <<>>)
    /\ (\A k \in 1..Len(mg.lists) : SortedByStart(mg.lists[k])) =>
           SortedByStart(mg.out)

\* three readers merged with a buffer that had to be refilled, the reads
\* of the readers interleaved
MergeWitness ==
    /\ mg.pc = "done"
    /\ Len(mg.lists) = 3
    /\ mg.buffsize = 2
    /\ Len(mg.lists[1]) = 3
    /\ Len(mg.lists[2]) >= 1
    /\ \E i \in 1..Len(mg.out) - 2 :
           /\ mg.out[i].rr = 1
           /\ mg.out[i + 1].rr # 1
           /\ mg.out[i + 2].rr = 1

\* how often a read occurs among the reads yielded
Occurrences(reads, r) == Cardinality({k \in 1..Len(reads) : reads[k] = r})

\* the records of the files on the reference of the query that overlap its
\* window and pass the filters
InRange ==
    {atRowNumber(aset.readers, rr, row) :
        <<rr, row>> \in
            {p \in (1..Len(aset.readers)) \X (1..MaxRecs) :
                /\ p[2] <= Len(aset.readers[p[1]].recs)
                /\ aset.readers[p[1]].recs[p[2]].Name = query.refName
                /\ aset.readers[p[1]].recs[p[2]].tStart < query.end
                /\ aset.readers[p[1]].recs[p[2]].tEnd > query.start
                /\ passesFilters(query.filters,
                                 aset.readers[p[1]].recs[p[2]])}}

\* the file is sorted by reference and start
FileSorted(reader) ==
    \A i, j \in 1..Len(reader.recs) :
        i < j => \/ RowOf(reader.Name, reader.recs[i].Name)
                      < RowOf(reader.Name, reader.recs[j].Name)
                 \/ /\ reader.recs[i].Name = reader.recs[j].Name
                    /\ reader.recs[i].tStart <= reader.recs[j].tStart

\* C17: a range query on an indexed AlignmentSet yields, through the index
\* and through the scan of the resources, the same multiset of records:
\* the records on the reference that overlap the window and pass the
\* filters, each once; a single sorted resource gives them in the same
\* order on both paths.
RangeQueryEquivalence ==
    (query # <<>> /\ query.pc = "done") =>
        /\ ~query.pbiErr
        /\ \A r \in Range(query.pbi) \cup Range(query.scan) \cup InRange :
              /\ Occurrences(query.pbi, r) = Occurrences(query.scan, r)
              /\ Occurrences(query.pbi, r) = IF r \in InRange THEN 1 ELSE 0
        /\ (Len(aset.readers) = 1 /\ FileSorted(aset.readers[1]))
              => query.pbi = query.scan

\* the scan alone yields the records in range, each once
ScanYieldsInRange ==
    (query # <<>> /\ query.pc = "done") =>
        \A r \in Range(query.scan) \cup InRange :
            Occurrences(query.scan, r) = IF r \in InRange THEN 1 ELSE 0

\* the files of the dataset have the same reference table
SameReferenceTables ==
    \A rr \in 1..Len(aset.readers) : aset.readers[rr].Name = aset.readers[1].Name

\* the two paths agree when the reference tables of the files agree
RangeQueryEquivalenceSameTables ==
    SameReferenceTables => RangeQueryEquivalence

\* the objects that existed when split was called
BeforeSplit == 1..Len(hcall.pre)

\* C19: every DataSet returned by split is a new object, deep-copied from
\* the original: neither it nor a subdataset object it holds existed before
\* the call (so none is the original, or a subdataset of the original), and
\* no two chunks returned hold a common object.
SplitReturnsDeepCopies ==
    hcall.op = "split" =>
        /\ \A k \in 1..Len(hcall.out) :
              Reach(heap, {hcall.out[k]}) \cap BeforeSplit = {}
        /\ \A k, l \in 1..Len(hcall.out) :
              k # l => Reach(heap, {hcall.out[k]})
                           \cap Reach(heap, {hcall.out[l]}) = {}

\* the same for a split that does not go by subdatasets
SplitByResourceReturnsDeepCopies ==
    (hcall.op = "split"
        /\ (hcall.flag \/ Len(hcall.pre[hcall.self].subs) <= 1))
    => SplitReturnsDeepCopies

\* the hole numbers of a file are in ascending order
HoleNumbersSorted(file) ==
    \A i, j \in 1..Len(file.holeNumber) :
        i < j => file.holeNumber[i] <= file.holeNumber[j]

\* the chunks returned whose range is cut from file f and holds hole number h
ChunksHolding(f, h) ==
    {c \in 1..Len(zs.out) :
        /\ zs.out[c] # <<>>
        /\ zs.out[c][1].movie = f
        /\ zs.out[c][1].zmw_start <= h
        /\ h <= zs.out[c][1].zmw_end}

\* a ZMW split was asked for at least as many chunks as there are files,
\* each file with one read group and its hole numbers sorted
ZmwSplitCalled ==
    /\ zs.outcome # ""
    /\ zs.chunks >= Len(zs.files)
    /\ \A f \in 1..Len(zs.files) :
          zs.files[f].readGroups = 1 /\ HoleNumbersSorted(zs.files[f])

\* C20: a ZMW split into at least as many chunks as files, each file with
\* one read group and sorted hole numbers, returns chunks that are each
\* restricted to one ZMW range of one movie; the ranges cut from one file
\* are pairwise disjoint and every hole number of every file lies in the
\* range of exactly one chunk.
ZmwSplitPartitions ==
    ZmwSplitCalled =>
        /\ zs.outcome = "ok"
        /\ \A c \in 1..Len(zs.out) : zs.out[c] # <<>>
        /\ \A c, d \in 1..Len(zs.out) :
              (c # d /\ zs.out[c] # <<>> /\ zs.out[d] # <<>>
                     /\ zs.out[c][1].movie = zs.out[d][1].movie)
              => \/ zs.out[c][1].zmw_end < zs.out[d][1].zmw_start
                 \/ zs.out[d][1].zmw_end < zs.out[c][1].zmw_start
        /\ \A f \in 1..Len(zs.files) :
              \A h \in Range(zs.files[f].holeNumber) :
                  Cardinality(ChunksHolding(f, h)) = 1

\* the chunks that are restricted partition the hole numbers of each file
ZmwRangesPartition ==
    (ZmwSplitCalled /\ zs.outcome = "ok") =>
        \A f \in 1..Len(zs.files) :
            \A h \in Range(zs.files[f].holeNumber) :
                Cardinality(ChunksHolding(f, h)) = 1

\* the split does not fail
ZmwSplitReturns == ZmwSplitCalled => zs.outcome = "ok"

\* the records of the files, resource after resource, that pass at least one
\* filter group of the DataSet; all of them without groups or with filtering
\* disabled
ExpectedRecords ==
    LET pass(rec) == \E g \in rs.filters : testPasses(g, rec)
    IN  IF rs.filters = {} \/ rs.noFiltering THEN Concat(rs.files)
        ELSE SelectSeq(Concat(rs.files), pass)

\* C21: iterating the records of a DataSet (records, __iter__) yields, in
\* resource order and then in record order, exactly the records that pass
\* all tests of at least one filter group; without filter groups, or after
\* disableFilters(), every record is yielded, and enableFilters() restores
\* the filtered behaviour.
IterationYieldsFiltered ==
    rs.op \in {"records", "iter"} => rs.out = ExpectedRecords

\* the set has a file whose counting must fail: an absent file, a file
\* without companion index, or a file whose index is an unavailable feature
CountingMustFail ==
    \E k \in DOMAIN rs.files : rs.files[k] \in {"missing", "noindex", "nofeature"}

\* C22: after ReadSet.updateCounts, under skipCounts the counts are -1/-1
\* and no reader was opened; otherwise, when a file or a companion index is
\* missing or a feature is unsupported, a set that is not strict has the
\* counts -1/-1 and no exception escaped, and a strict set raised.
UpdateCountsErrorHandling ==
    rs # <<>> =>
      (rs.op = "updateCounts" =>
        IF rs._skipCounts
        THEN /\ rs.exc = ""
             /\ rs.numRecords = UnknownCount
             /\ rs.totalLength = UnknownCount
             /\ rs._openReaders = rs.pre.readers
        ELSE CountingMustFail =>
               IF rs._strict THEN rs.exc # ""
               ELSE /\ rs.exc = ""
                    /\ rs.numRecords = UnknownCount
                    /\ rs.totalLength = UnknownCount)

\* the same statement for a call that starts with no reader open
UpdateCountsErrorHandlingUnopened ==
    rs # <<>> =>
      (rs.op = "updateCounts" /\ rs.pre.readers = <<>> =>
        IF rs._skipCounts
        THEN /\ rs.exc = ""
             /\ rs.numRecords = UnknownCount
             /\ rs.totalLength = UnknownCount
             /\ rs._openReaders = rs.pre.readers
        ELSE CountingMustFail =>
               IF rs._strict THEN rs.exc # ""
               ELSE /\ rs.exc = ""
                    /\ rs.numRecords = UnknownCount
                    /\ rs.totalLength = UnknownCount)

\* C30: after assertIndexed() or an index access, returned or raised, the
\* strict flag of the set is the one it had before the call.
AssertIndexedKeepsStrict ==
    rs # <<>> =>
      (rs.op \in {"assertIndexed", "index"} => rs._strict = rs.pre.strict)

\* the same statement for the ReadSet family alone
ReadSetAssertIndexedKeepsStrict ==
    rs # <<>> =>
      (rs.op \in {"assertIndexed", "index"} /\ rs.cls = "ReadSet"
         => rs._strict = rs.pre.strict)

\* the row passes the filters of the ReadSet as they are now
PassesNow(row) ==
    rs.filters = {} \/ rs.noFiltering \/ \E t \in rs.filters : testPasses(t, row)

\* C23: once the index is built, the index map has one (reader, row) entry
\* per index row in the order of the index; index row N is that row of that
\* reader and passes the filters; the entries increase by reader and then
\* by row; dataset[i] is the record at _indexMap[i], and dataset[-k] is
\* dataset[len(index) - k] for 1 <= k <= len(index).
IndexMapProvenance ==
    rs # <<>> /\ rs._indexMap # <<>> =>
      LET map == rs._indexMap[1]
          idx == rs._index[1]
          rec(n) == rs.files[map[n].rr][map[n].row]
      IN /\ rs._index # <<>>
         /\ Len(map) = Len(idx)
         /\ \A n \in DOMAIN map :
               /\ map[n].rr \in DOMAIN rs.files
               /\ map[n].row \in DOMAIN rs.files[map[n].rr]
               /\ idx[n] = rec(n)
               /\ PassesNow(idx[n])
         /\ \A m, n \in DOMAIN map :
               m < n => \/ map[m].rr < map[n].rr
                        \/ map[m].rr = map[n].rr /\ map[m].row < map[n].row
         /\ rs.op = "getitem" /\ 0 <= rs.arg /\ rs.arg < Len(idx)
               => rs.exc = "" /\ rs.out = <<rec(rs.arg + 1)>>
         /\ rs.op = "getitem" /\ rs.arg < 0 /\ 0 - rs.arg <= Len(idx)
               => rs.exc = "" /\ rs.out = <<rec(Len(idx) + rs.arg + 1)>>

\* a negative position has been read from an index of two or more rows
\* that the filters shortened
IndexMapWitness ==
    /\ rs # <<>>
    /\ rs._indexMap # <<>>
    /\ rs.op = "getitem"
    /\ rs.arg < 0
    /\ rs.exc = ""
    /\ Len(rs._index[1]) >= 2
    /\ Len(rs._index[1]) < Len(Concat(rs.files))

\* C25: for every index list and every buffsize >= 1, _getRecords yields
\* as its k-th record row indexList[k][1] of reader indexList[k][0], each
\* requested pair once, whether or not the length of the list is a
\* multiple of buffsize: the buffered path yields what the one-at-a-time
\* path yields.
BufferedYieldsIndexListOrder ==
    rs # <<>> /\ rs.pc = "done" =>
      /\ Len(rs.out) = Len(rs.indexList)
      /\ \A k \in DOMAIN rs.indexList :
            rs.out[k] = getRow(rs.indexList[k][1], rs.indexList[k][2])

\* a buffered generator has finished a list that is no multiple of its
\* buffer size, longer than it, and that alternates between two readers
BufferedWitness ==
    /\ rs # <<>>
    /\ rs.pc = "done"
    /\ rs.buffsize = 2
    /\ Len(rs.indexList) = 3
    /\ rs.indexList[1][1] = 2
    /\ rs.indexList[2][1] = 1
    /\ rs.indexList[3][1] = 2
    /\ Len(rs.out) = 3

\* the length of row n of the index as it was before the call, clipped to
\* the window of the query
ClippedLength(n) ==
    LET row == rs.pre[n]
        tEnd == IF row.tEnd > rs.end THEN rs.end ELSE row.tEnd
        tStart == IF row.tStart < rs.start THEN rs.start ELSE row.tStart
    IN tEnd - tStart

\* C24: with longest=True and sampleSize=0, _pbiReadsInRange yields the
\* records in range, each once, by non-increasing length clipped to the
\* window, records of equal clipped length in index order, and the cached
\* index is what it was before the call.
LongestFirstStable ==
    rs # <<>> /\ rs.pc = "done" /\ rs.sampleSize = 0 =>
      /\ rs.index = rs.pre
      /\ {rs.out[k] : k \in DOMAIN rs.out}
            = {n \in DOMAIN rs.pre : /\ rs.pre[n].tStart < rs.end
                                     /\ rs.pre[n].tEnd > rs.start}
      /\ \A i, j \in DOMAIN rs.out :
            i < j => \/ ClippedLength(rs.out[i]) > ClippedLength(rs.out[j])
                     \/ /\ ClippedLength(rs.out[i]) = ClippedLength(rs.out[j])
                        /\ rs.out[i] < rs.out[j]

\* three records in range were yielded, two of equal clipped length after
\* a longer one that comes later in the index, one of them clipped
LongestFirstWitness ==
    /\ rs # <<>>
    /\ rs.pc = "done"
    /\ rs.sampleSize = 0
    /\ Len(rs.out) = 3
    /\ rs.out[1] = 3
    /\ ClippedLength(2) = ClippedLength(1)
    /\ \E n \in DOMAIN rs.pre : rs.pre[n].tEnd > rs.end

\* the coverage the walk from break k to break k + 1 added up: the contour
\* at the positions after break k up to break k + 1
Accumulated(k) ==
    SumSeq([q \in 1..(ctg.tbr[k + 1] - ctg.tbr[k]) |->
               ctg.contour[ctg.tbr[k] + q + 1]])

\* C27: _intervalContour returns refLength + 1 entries, entry i the number
\* of records with tStart <= i < tEnd; _splitContour(contour, s) returns s
\* break positions, the first 0, non-decreasing, none beyond the last
\* position of the contour, and each segment before the last accumulated
\* at least floor(total coverage / s) unless its end is the end of the
\* contour.
ContourAndSplit ==
    /\ ctg # <<>> /\ ctg.pc \in {"split", "done"} =>
         /\ Len(ctg.contour) = ctg.refLength + 1
         /\ \A i \in 0..ctg.refLength :
               ctg.contour[i + 1]
                  = Cardinality({n \in DOMAIN ctg.recs :
                                    /\ ctg.recs[n].tStart <= i
                                    /\ i < ctg.recs[n].tEnd})
    /\ ctg # <<>> /\ ctg.pc = "done" =>
         /\ Len(ctg.tbr) = ctg.splits
         /\ ctg.tbr[1] = 0
         /\ \A k \in 1..(ctg.splits - 1) :
               /\ ctg.tbr[k] <= ctg.tbr[k + 1]
               /\ \/ Accumulated(k) >= SumSeq(ctg.contour) \div ctg.splits
                  \/ ctg.tbr[k + 1] = Len(ctg.contour) - 1
         /\ \A k \in 1..ctg.splits : ctg.tbr[k] <= Len(ctg.contour) - 1

\* a contour of two overlapping records was split in three, the second
\* break before the end of the contour and the third at its end
ContourWitness ==
    /\ ctg # <<>>
    /\ ctg.pc = "done"
    /\ ctg.splits = 3
    /\ \E i \in DOMAIN ctg.contour : ctg.contour[i] = 2
    /\ 0 < ctg.tbr[2]
    /\ ctg.tbr[2] < ctg.tbr[3]
    /\ ctg.tbr[3] = Len(ctg.contour) - 1

\* the windows of reference rn among atoms, in the order of atoms
WindowsOf(atoms, rn) == SelectSeq(atoms, LAMBDA atom : atom.rn = rn)

\* the windows follow one another from 0 to length without gap or overlap
CoverContiguously(windows, length) ==
    /\ windows # <<>>
    /\ windows[1].start = 0
    /\ windows[Len(windows)].end = length
    /\ \A k \in 1..(Len(windows) - 1) : windows[k].end = windows[k + 1].start
    /\ \A k \in DOMAIN windows : windows[k].start <= windows[k].end

\* after the breaking step no window is longer than the target and the
\* windows of each contig cover it
BrokenWindows ==
    ctg.pc = "done" =>
      /\ \A k \in DOMAIN ctg.atoms :
            ctg.atoms[k].end - ctg.atoms[k].start
               <= SumSeq(ctg.refLens) \div ctg.chunks
      /\ \A rn \in DOMAIN ctg.refLens :
            LET before == WindowsOf(contigAtoms(ctg.refLens, ctg.hasRecs), rn)
            IN IF before = <<>> THEN WindowsOf(ctg.atoms, rn) = <<>>
               ELSE CoverContiguously(WindowsOf(ctg.atoms, rn),
                                      ctg.refLens[rn])

\* C28: with breakContigs set and byRecords unset, for all contig lengths
\* and every chunk count the breaking step terminates, and afterwards no
\* window is longer than total reference length divided by the chunk count
\* while the windows of each contig cover it contiguously without overlap.
BreakingTerminates == <>(ctg.pc = "done") /\ []BrokenWindows

\* a contig was cut in three windows, the last shorter than the target
BreakWitness ==
    /\ ctg # <<>>
    /\ ctg.pc = "done"
    /\ \E rn \in DOMAIN ctg.refLens :
          /\ Len(WindowsOf(ctg.atoms, rn)) = 3
          /\ LET last == WindowsOf(ctg.atoms, rn)[3]
             IN last.end - last.start < ctg.target

\* split(contigs=True, chunks=n) with n greater than the number of contigs:
\* every contig keeps a segment and the segments sum to n; the windows of
\* each contig cover it contiguously; n DataSets are returned and each is
\* given at least one window
SubdividedWindows ==
    /\ ctg.pc = "atoms" =>
         /\ \A k \in DOMAIN ctg.atoms : ctg.atoms[k].segments >= 1
         /\ SumSeq([k \in DOMAIN ctg.atoms |-> ctg.atoms[k].segments])
               + ctg.todo = ctg.chunks
    /\ ctg.pc \in {"shift", "chunk", "done"} =>
         /\ Len(ctg.windows) = ctg.chunks
         /\ ctg.results = ctg.chunks
         /\ \A k \in DOMAIN ctg.atoms :
               CoverContiguously(WindowsOf(ctg.windows, ctg.atoms[k].rn),
                                 ctg.refLens[ctg.atoms[k].rn])
    /\ ctg.pc = "done" =>
         /\ Len(ctg.chunked) = ctg.results
         /\ \A c \in DOMAIN ctg.chunked : ctg.chunked[c] # <<>>

\* the increment went to a contig whose size per segment, taken as a
\* fraction, was the largest
IncrementToLargestRatio ==
    ctg.last # <<>> =>
      LET before == ctg.last[1].atoms
          k == ctg.last[1].largest
      IN \A j \in DOMAIN before :
            before[j].size * before[k].segments
               <= before[k].size * before[j].segments

\* the increment went to the first contig whose size divided by its
\* segments, as an integer division, was the largest
IncrementToLargestQuotient ==
    ctg.last # <<>> =>
      LET before == ctg.last[1].atoms
          k == ctg.last[1].largest
          key(j) == before[j].size \div before[j].segments
      IN /\ \A j \in DOMAIN before : key(j) <= key(k)
         /\ \A j \in 1..(k - 1) : key(j) < key(k)

\* C26: split(contigs=True, chunks=n) with maxChunks=0 and n greater than
\* the number of contigs returns n DataSets; _split_atoms leaves every
\* contig at least one segment, the segments summing to n, each increment
\* going to the contig with the largest size per segment; the windows of
\* each contig, also after the reshaping by records, are contiguous,
\* non-overlapping and cover [0, contig length]; every chunk is assigned
\* at least one window.
ContigSubdivision == SubdividedWindows /\ IncrementToLargestRatio

\* the same statement with the size per segment taken as the integer
\* quotient the code computes
ContigSubdivisionQuotient == SubdividedWindows /\ IncrementToLargestQuotient

\* two contigs were split in four by records, one of them in three windows
\* reshaped on its contour
SubdivisionWitness ==
    /\ ctg # <<>>
    /\ ctg.pc = "done"
    /\ ctg.byRecords
    /\ ctg.chunks = 4
    /\ Len(ctg.atoms) = 2
    /\ \E k \in DOMAIN ctg.atoms : ctg.atoms[k].segments = 3
    /\ \E w \in DOMAIN ctg.windows :
          ctg.windows[w].start > 0 /\ ctg.windows[w].end < MaxSplitLength

\* how many times x occurs among the subdatasets of the DataSets of <out>
HeldTimes(out, x) ==
    SumSeq([c \in DOMAIN out |->
               Cardinality({k \in DOMAIN out[c].subdatasets :
                               out[c].subdatasets[k] = x})])

\* C29: split(chunks=K, ignoreSubDatasets=False) on a DataSet with S >= 2
\* subdatasets and 1 <= K <= S returns K DataSets that each hold at least
\* one subdataset, every subdataset of the original held by exactly one of
\* them, whatever the record counts; with K = S (or K = 0) and resources
\* in every subdataset the result is the subdatasets themselves.
SplitBySubdatasetPartitions ==
    call.op = "split" /\ ~call.flag /\ Len(call.self1[1].subdatasets) >= 2 =>
      LET d == call.self1[1]
          S == Len(d.subdatasets)
          K == call.nchunks
          asTheyAre == /\ K = S \/ K = 0
                       /\ \A k \in 1..S : d.subdatasets[k].res # <<>>
      IN /\ asTheyAre => call.out = d.subdatasets
         /\ 1 <= K /\ K <= S /\ ~asTheyAre =>
              /\ Len(call.out) = K
              /\ \A c \in DOMAIN call.out : call.out[c].subdatasets # <<>>
              /\ \A k \in 1..S :
                    HeldTimes(call.out, d.subdatasets[k])
                       = Cardinality({j \in 1..S :
                                         d.subdatasets[j] = d.subdatasets[k]})

====
